---- MODULE Spec2Model ----
(***************************************************************************)
(* A model of the retrieval-augmented context engine of WorkbenchIQ:       *)
(* the chunker, the chunk repository and the indexing pipeline             *)
(* (app/rag/chunker.py, repository.py, indexer.py), the search service     *)
(* (search.py), the context assembler (context.py) and the RAG service     *)
(* facade (service.py).                                                    *)
(*                                                                         *)
(* Strings that the code only compares or copies are atoms; a formatted    *)
(* content string is the record of the values its template interpolates;   *)
(* SHA-256 is taken to be collision free.  Similarities are hundredths,    *)
(* hybrid scores thousandths, weights tenths.                              *)
(***************************************************************************)
EXTENDS Integers, Sequences, FiniteSets, Bags, TLC

VARIABLES
    \* ---- indexing pipeline (indexer.py, repository.py) ----
    docs,       \* the policies file: policy id -> policy dict, or NoPolicy
    store,      \* the policy_chunks table: a bag of rows
    last,       \* what is remembered of the last index_policies calls
    edits,      \* number of edits made to the policies file
    \* ---- chunker (chunker.py), exercised alone ----
    cpolicy,    \* the policy given to chunk_policy
    cbefore,    \* the chunks of the policy before the edit
    cafter,     \* the chunks of the policy after the edit
    cedit,      \* the edit: [index, field], or NoEdit
    cphase,     \* "off" | "new" | "chunked" | "edited" | "rechunked"
    \* ---- RAG service facade (service.py) ----
    qsvc,       \* the RAGService object: _initialized, use_hybrid_search
    qcall,      \* the last call: the operation, its arguments, the world it ran in
    qres,       \* what the last call gave its caller
    \* ---- context assembler (context.py), exercised alone ----
    aarg,       \* the arguments of assemble_context and the token counts
    ares,       \* the RAGContext it returned
    \* ---- search service (search.py), exercised alone ----
    sarg,       \* the table, the query and the arguments of a search
    sres,       \* the operation run and the list it returned
    \* ---- two concurrent index_policies runs (indexer.py, repository.py) ----
    wcfg,       \* the policy_ids both runs target and the table they start from
    wrun,       \* per run: force_reindex, its store operations, its position
    wstore,     \* the policy_chunks table the two runs share
    wraced,     \* a run has deleted rows the other run had stored
    \* ---- insert_chunks with failing chunks (repository.py) ----
    bstore,     \* the policy_chunks table
    bcall,      \* the batch given to insert_chunks and the statements that fail
    bres,       \* what insert_chunks gave its caller
    \* ---- embedding service (embeddings.py) ----
    ecall,      \* the arguments of get_embeddings_batch and the settings
    epc,        \* "idle" | "post" | "done"
    eattempt,   \* the loop variable of the retry loop
    elog,       \* the requests sent and the sleeps made, in order
    eres,       \* what get_embeddings_batch gave its caller
    \* ---- connection pool (database/pool.py) ----
    pool,       \* the module global _pool: NULL or a pool object
    pcaller,    \* per coroutine: where it is in init_pool and what it got
    pcreated,   \* number of asyncpg.create_pool invocations
    \* ---- category inference (inference.py) ----
    iarg,       \* the query (its pattern hits), the arguments, the model's answer
    ires,       \* the InferredContext returned and the filter derived from it
    \* ---- policy endpoints and their background tasks (api_server.py) ----
    areq,       \* the policy the requests are about, the endpoints called so far
    afile,      \* the policies file the endpoints write
    atasks,     \* the background reindex task and the background delete task
    astore      \* the policy_chunks table

indexVars == <<docs, store, last, edits>>
chunkVars == <<cpolicy, cbefore, cafter, cedit, cphase>>
queryVars == <<qsvc, qcall, qres>>
asmVars == <<aarg, ares>>
searchVars == <<sarg, sres>>
concVars == <<wcfg, wrun, wstore, wraced>>
batchVars == <<bstore, bcall, bres>>
embedVars == <<ecall, epc, eattempt, elog, eres>>
poolVars == <<pool, pcaller, pcreated>>
inferVars == <<iarg, ires>>
apiVars == <<areq, afile, atasks, astore>>

-----------------------------------------------------------------------------
(* Bounds of the model                                                     *)

\* Edits of the policies file in one behaviour.
MaxEdits == 1
\* Criteria of the policy handed to the chunker alone.
MaxCriteria == 3

-----------------------------------------------------------------------------
(* Values                                                                  *)

NULL == "NULL"          \* Python None / SQL NULL
NoPolicy == [id |-> NULL]
NoEdit == [index |-> 0, field |-> NULL]

PolicyIds == {"P1", "P2"}
RiskLevels == {"High", "Low"}
CriteriaFields == {"condition", "risk_level", "action", "rationale"}

\* The other value of a two-valued text field: an edit of the field.
Edited(field, v) ==
    CASE field = "risk_level" -> IF v = "High" THEN "Low" ELSE "High"
      [] field = "rationale"  -> IF v = "" THEN "r1" ELSE ""
      [] OTHER                -> IF v = field \o "0" THEN field \o "1" ELSE field \o "0"

RECURSIVE SeqToSet(_)
SeqToSet(s) == IF s = <<>> THEN {} ELSE {Head(s)} \cup SeqToSet(Tail(s))

-----------------------------------------------------------------------------
(* chunker.py                                                              *)

\* _hash_content: SHA-256 of the content, collision free.
HashContent(content) == <<"sha256", content>>

EmptyContent ==
    [kind |-> "", name |-> "", category |-> "", subcategory |-> "",
     description |-> "", count |-> 0, risks |-> {}, condition |-> "",
     risk_level |-> "", action |-> "", rationale |-> "", items |-> <<>>]

\* The content template of _chunk_policy_header: name, category, subcategory
\* and description when set, and the criteria summary (their number and the
\* sorted set of their non-empty risk levels) when the policy has criteria.
HeaderContent(policy) ==
    LET crit == policy.criteria
        n == Len(crit)
    IN  [EmptyContent EXCEPT
           !.kind = "header",
           !.name = policy.name,
           !.category = policy.category,
           !.subcategory = IF policy.subcategory = NULL THEN "" ELSE policy.subcategory,
           !.description = policy.description,
           !.count = n,
           !.risks = IF n = 0 THEN {}
                     ELSE {crit[i].risk_level : i \in 1..n} \ {"", NULL}]

\* A criteria template that leaves the rationale out.
CriteriaContentNoRationale(policy_name, criteria) ==
    [EmptyContent EXCEPT
       !.kind = "criteria",
       !.name = policy_name,
       !.condition = criteria.condition,
       !.risk_level = criteria.risk_level,
       !.action = criteria.action]

\* The content template of _chunk_criteria; the rationale line is left out
\* when the rationale is empty.
CriteriaContent(policy_name, criteria) ==
    [EmptyContent EXCEPT
       !.kind = "criteria",
       !.name = policy_name,
       !.condition = criteria.condition,
       !.risk_level = criteria.risk_level,
       !.action = criteria.action,
       !.rationale = criteria.rationale]

FactorsContent(policy_name, factors) ==
    [EmptyContent EXCEPT !.kind = "factors", !.name = policy_name, !.items = factors]

ReferencesContent(policy_name, references) ==
    [EmptyContent EXCEPT !.kind = "references", !.name = policy_name, !.items = references]

\* A PolicyChunk; embedding is None until embed_chunks sets it.
Chunk(policy_id, type, sequence, criteria_id, content) ==
    [policy_id |-> policy_id, chunk_type |-> type, chunk_sequence |-> sequence,
     criteria_id |-> criteria_id, content_hash |-> HashContent(content),
     embedding |-> NULL]

ChunkPolicyHeader(policy, sequence) ==
    Chunk(policy.id, "policy_header", sequence, NULL, HeaderContent(policy))

\* criteria.get("id", f"{policy_id}-{sequence}")
ChunkCriteria(policy_id, policy_name, criteria, sequence) ==
    Chunk(policy_id, "criteria", sequence,
          IF criteria.id = NULL THEN policy_id \o "-" \o ToString(sequence)
          ELSE criteria.id,
          CriteriaContent(policy_name, criteria))

ChunkModifyingFactors(policy_id, policy_name, factors, sequence) ==
    Chunk(policy_id, "modifying_factor", sequence, NULL,
          FactorsContent(policy_name, factors))

ChunkReferences(policy_id, policy_name, references, sequence) ==
    Chunk(policy_id, "reference", sequence, NULL,
          ReferencesContent(policy_name, references))

\* chunks.append(chunk); sequence += 1
AppendChunk(acc, chunk) ==
    [chunks |-> Append(acc.chunks, chunk), sequence |-> acc.sequence + 1]

\* The loop over policy.get("criteria", []), from criterion i on.
RECURSIVE AddCriteria(_, _, _)
AddCriteria(acc, policy, i) ==
    IF i > Len(policy.criteria) THEN acc
    ELSE AddCriteria(
           AppendChunk(acc, ChunkCriteria(policy.id, policy.name,
                                          policy.criteria[i], acc.sequence)),
           policy, i + 1)

\* The factors chunk appended without `sequence += 1`.
AddFactorsNoIncr(acc, policy) ==
    IF policy.modifying_factors # <<>>
    THEN [acc EXCEPT !.chunks =
            Append(@, ChunkModifyingFactors(policy.id, policy.name,
                                            policy.modifying_factors, acc.sequence))]
    ELSE acc

\* if policy.get("modifying_factors"): append the factors chunk.
AddFactors(acc, policy) ==
    IF policy.modifying_factors # <<>>
    THEN AppendChunk(acc, ChunkModifyingFactors(policy.id, policy.name,
                                                policy.modifying_factors, acc.sequence))
    ELSE acc

\* if policy.get("references"): append the references chunk.
AddReferences(acc, policy) ==
    IF policy.references # <<>>
    THEN AppendChunk(acc, ChunkReferences(policy.id, policy.name,
                                          policy.references, acc.sequence))
    ELSE acc

\* chunk_policy: header, one chunk per criterion in source order, then the
\* modifying-factors chunk and the references chunk when the policy has any.
ChunkPolicy(policy) ==
    LET start == [chunks |-> <<>>, sequence |-> 0]
        h == AppendChunk(start, ChunkPolicyHeader(policy, start.sequence))
        c == AddCriteria(h, policy, 1)
        f == AddFactors(c, policy)
        r == AddReferences(f, policy)
    IN  r.chunks

-----------------------------------------------------------------------------
(* repository.py and the policy_chunks table                               *)

\* COALESCE(criteria_id, '')
Coalesce(criteria_id) == IF criteria_id = NULL THEN "" ELSE criteria_id

\* A unique index on the bare criteria_id column, under which NULLs never
\* collide.
ConflictsNullDistinct(row, chunk) ==
    /\ row.policy_id = chunk.policy_id
    /\ row.chunk_type = chunk.chunk_type
    /\ row.criteria_id # NULL
    /\ row.criteria_id = chunk.criteria_id
    /\ row.content_hash = chunk.content_hash

\* idx_policy_chunks_unique and the ON CONFLICT target: a stored row and a
\* new chunk collide on (policy_id, chunk_type, COALESCE(criteria_id, ''),
\* content_hash).
Conflicts(row, chunk) ==
    /\ row.policy_id = chunk.policy_id
    /\ row.chunk_type = chunk.chunk_type
    /\ Coalesce(row.criteria_id) = Coalesce(chunk.criteria_id)
    /\ row.content_hash = chunk.content_hash

\* The table is a bag of rows: the generated id column only tells apart rows
\* that are otherwise equal, which the number of copies records.
RECURSIVE Copies(_, _)
Copies(tbl, rows) ==
    IF rows = {} THEN 0
    ELSE LET r == CHOOSE x \in rows : TRUE
         IN  tbl[r] + Copies(tbl, rows \ {r})

\* The row an INSERT creates; created_at = updated_at.
NewRow(chunk) ==
    [policy_id |-> chunk.policy_id,
     chunk_type |-> chunk.chunk_type, chunk_sequence |-> chunk.chunk_sequence,
     criteria_id |-> chunk.criteria_id, content_hash |-> chunk.content_hash,
     updated |-> FALSE]

\* DO UPDATE SET ...: the listed columns are refreshed (they are functions of
\* the chunk's content and policy here) and updated_at moves; chunk_sequence
\* is not in the list and keeps the stored value.
UpdateRow(row, chunk) == [row EXCEPT !.updated = TRUE]

\* A plain INSERT, without the ON CONFLICT clause and the index behind it.
UpsertInsertOnly(tbl, chunk, on_conflict) == tbl (+) SetToBag({NewRow(chunk)})

\* One INSERT ... ON CONFLICT statement of insert_chunks.
Upsert(tbl, chunk, on_conflict) ==
    LET rows == BagToSet(tbl)
        hit == {r \in rows : Conflicts(r, chunk)}
        kept == rows \ hit
        new == {UpdateRow(r, chunk) : r \in hit}
    IN  IF hit = {} THEN tbl (+) SetToBag({NewRow(chunk)})
        ELSE IF on_conflict = "update"
             THEN [x \in kept \cup new |->
                     (IF x \in kept THEN tbl[x] ELSE 0)
                     + Copies(tbl, {r \in hit : UpdateRow(r, chunk) = x})]
             ELSE tbl

\* DELETE FROM policy_chunks WHERE policy_id = $1
DeleteByPolicy(tbl, policy_id) ==
    [r \in {x \in BagToSet(tbl) : x.policy_id # policy_id} |-> tbl[r]]

-----------------------------------------------------------------------------------------------------------------------------------------------------
(* indexer.py                                                              *)

PolicyOrder == <<"P1", "P2">>

\* The policy_ids argument: None, or a list (only membership is used): the
\* empty list, as `--policy-ids` without a value gives, or one policy.
NoIds == [given |-> FALSE, list |-> {}]
IdsArgs ==
    {NoIds, [given |-> TRUE, list |-> {}]}
    \cup {[given |-> TRUE, list |-> {p}] : p \in PolicyIds}

\* _load_policies and the policy_ids filter: `if policy_ids:` is false for
\* None and for the empty list.
LoadPolicies(file, ids) ==
    LET present == SelectSeq(PolicyOrder, LAMBDA p : file[p].id # NULL)
        wanted == IF ids.given /\ ids.list # {}
                  THEN SelectSeq(present, LAMBDA p : p \in ids.list)
                  ELSE present
    IN  [i \in 1..Len(wanted) |-> file[wanted[i]]]

\* force_reindex ignored: nothing is deleted.
ForceDeletesNone(force, policies) == <<>>

\* Step 2: the policies whose chunks are deleted before indexing.
ForceDeletes(force, policies) ==
    IF force THEN [i \in 1..Len(policies) |-> policies[i].id] ELSE <<>>

\* Step 2: the loop of delete_chunks_by_policy.
RECURSIVE DeleteAll(_, _)
DeleteAll(tbl, ids) ==
    IF ids = <<>> THEN tbl
    ELSE DeleteAll(DeleteByPolicy(tbl, Head(ids)), Tail(ids))

\* Step 3: all_chunks.
RECURSIVE ChunkAll(_)
ChunkAll(policies) ==
    IF policies = <<>> THEN <<>>
    ELSE ChunkPolicy(Head(policies)) \o ChunkAll(Tail(policies))

\* Step 4: embed_chunks gives every chunk its embedding.
EmbedChunks(chunks) == [i \in 1..Len(chunks) |-> [chunks[i] EXCEPT !.embedding = "vec"]]

\* Step 5: insert_chunks, one statement per chunk in list order; a chunk
\* without an embedding is skipped.
RECURSIVE InsertChunks(_, _, _)
InsertChunks(tbl, chunks, on_conflict) ==
    IF chunks = <<>> THEN tbl
    ELSE LET chunk == Head(chunks)
             next == IF chunk.embedding = NULL THEN tbl
                     ELSE Upsert(tbl, chunk, on_conflict)
         IN  InsertChunks(next, Tail(chunks), on_conflict)

\* The table after index_policies has run over `policies`.
Indexed(tbl, policies, force) ==
    InsertChunks(DeleteAll(tbl, ForceDeletes(force, policies)),
                 EmbedChunks(ChunkAll(policies)), "update")

-----------------------------------------------------------------------------
(* The policies file at the start: P1 with two identified criteria,        *)
(* modifying factors and references; P2 with one criterion without an id.  *)

Criterion(id, risk) ==
    [id |-> id, condition |-> "condition0", risk_level |-> risk,
     action |-> "action0", rationale |-> "r1"]

InitialDocs ==
    [p \in PolicyIds |->
        IF p = "P1"
        THEN [id |-> "P1", name |-> "N1", category |-> "cardiovascular",
              subcategory |-> "hypertension", description |-> "d",
              criteria |-> <<Criterion("A", "High"), Criterion("B", "Low")>>,
              modifying_factors |-> <<"f1">>, references |-> <<"ref1">>]
        ELSE [id |-> "P2", name |-> "N2", category |-> "metabolic",
              subcategory |-> NULL, description |-> "",
              criteria |-> <<Criterion(NULL, "High")>>,
              modifying_factors |-> <<>>, references |-> <<>>]]

\* The edits of the policies file that the behaviours of the pipeline make:
\* policy, criterion, field.
IndexEdits ==
    {<<"P1", 1, "condition">>, <<"P1", 1, "risk_level">>, <<"P2", 1, "condition">>}

\* The policies that the behaviours of the pipeline take out of the file.
IndexRemovals == {"P2"}

\* update_policy: criterion i of the policy gets another value in `field`.
EditCriterion(policy, i, field) ==
    [policy EXCEPT !.criteria[i][field] = Edited(field, @)]

\* What is remembered of the index_policies calls: the arguments and loaded
\* policies of the last one, the table as it was when it began, and the
\* arguments and policies of the one before it; forgotten as soon as anything
\* else writes to the table.
NoCall == [valid |-> FALSE, policies |-> <<>>, ids |-> NoIds, force |-> FALSE]
NoSummary == [valid |-> FALSE, policies |-> <<>>, ids |-> NoIds, force |-> FALSE,
              before |-> EmptyBag, prior |-> NoCall]
CallOf(summary) ==
    [valid |-> summary.valid, policies |-> summary.policies,
     ids |-> summary.ids, force |-> summary.force]

IdleIndex ==
    /\ docs = InitialDocs
    /\ store = EmptyBag
    /\ last = NoSummary
    /\ edits = 0

IdleChunk ==
    /\ cpolicy = NoPolicy
    /\ cbefore = <<>>
    /\ cafter = <<>>
    /\ cedit = NoEdit
    /\ cphase = "off"

IdleQuery ==
    /\ qsvc = NULL
    /\ qcall = NULL
    /\ qres = NULL

IdleAssemble ==
    /\ aarg = NULL
    /\ ares = NULL

IdleSearch ==
    /\ sarg = NULL
    /\ sres = NULL

IdleConc ==
    /\ wcfg = NULL
    /\ wrun = NULL
    /\ wstore = EmptyBag
    /\ wraced = FALSE

IdleBatch ==
    /\ bstore = EmptyBag
    /\ bcall = NULL
    /\ bres = NULL

IdleEmbed ==
    /\ ecall = NULL
    /\ epc = "idle"
    /\ eattempt = 0
    /\ elog = <<>>
    /\ eres = NULL

IdlePool ==
    /\ pool = NULL
    /\ pcaller = NULL
    /\ pcreated = 0

IdleInfer ==
    /\ iarg = NULL
    /\ ires = NULL

IdleApi ==
    /\ areq = NULL
    /\ afile = NULL
    /\ atasks = NULL
    /\ astore = NULL

\* The concurrent runs, the failing batch, the embedding service, the pool,
\* the inference and the policy endpoints at rest.
IdleLater == IdleConc /\ IdleBatch /\ IdleEmbed /\ IdlePool /\ IdleInfer /\ IdleApi

vars == <<docs, store, last, edits,
          cpolicy, cbefore, cafter, cedit, cphase,
          qsvc, qcall, qres, aarg, ares, sarg, sres,
          wcfg, wrun, wstore, wraced, bstore, bcall, bres,
          ecall, epc, eattempt, elog, eres, pool, pcaller, pcreated,
          iarg, ires, areq, afile, atasks, astore>>

\* What the actions of each part leave alone.
firstVars == <<indexVars, chunkVars, queryVars, asmVars, searchVars>>
laterVars == <<concVars, batchVars, embedVars, poolVars, inferVars, apiVars>>
IndexFrame == UNCHANGED <<chunkVars, queryVars, asmVars, searchVars, laterVars>>
ChunkFrame == UNCHANGED <<indexVars, queryVars, asmVars, searchVars, laterVars>>
QueryFrame == UNCHANGED <<indexVars, chunkVars, asmVars, searchVars, laterVars>>
AssembleFrame == UNCHANGED <<indexVars, chunkVars, queryVars, searchVars, laterVars>>
SearchFrame == UNCHANGED <<indexVars, chunkVars, queryVars, asmVars, laterVars>>
ConcFrame == UNCHANGED <<firstVars, batchVars, embedVars, poolVars, inferVars, apiVars>>
BatchFrame == UNCHANGED <<firstVars, concVars, embedVars, poolVars, inferVars, apiVars>>
EmbedFrame == UNCHANGED <<firstVars, concVars, batchVars, poolVars, inferVars, apiVars>>
PoolFrame == UNCHANGED <<firstVars, concVars, batchVars, embedVars, inferVars, apiVars>>
InferFrame == UNCHANGED <<firstVars, concVars, batchVars, embedVars, poolVars, apiVars>>
ApiFrame ==
    UNCHANGED <<firstVars, concVars, batchVars, embedVars, poolVars, inferVars>>
\* The pipeline, the chunker, the service, the assembler and the search at
\* rest.
IdleFirst == IdleIndex /\ IdleChunk /\ IdleQuery /\ IdleAssemble /\ IdleSearch

-----------------------------------------------------------------------------
(* Actions of the indexing pipeline                                        *)

\* The policies file is edited (PUT /api/policies/{id}).
EditDoc(p, i, field) ==
    /\ edits < MaxEdits
    /\ docs[p].id # NULL
    /\ i \in 1..Len(docs[p].criteria)
    /\ docs' = [docs EXCEPT ![p] = EditCriterion(@, i, field)]
    /\ edits' = edits + 1
    /\ UNCHANGED <<store, last>>
    /\ IndexFrame

\* index_policies(policy_ids, force_reindex): load and filter, return
\* {"status": "skipped"} when nothing is loaded, else delete (force), chunk,
\* embed and store.
IndexPolicies(ids, force) ==
    /\ LET policies == LoadPolicies(docs, ids)
       IN  IF policies = <<>>
           THEN UNCHANGED <<store, last>>
           ELSE /\ store' = Indexed(store, policies, force)
                /\ last' = [valid |-> TRUE, policies |-> policies, ids |-> ids,
                            force |-> force, before |-> store,
                            prior |-> CallOf(last)]
    /\ UNCHANGED <<docs, edits>>
    /\ IndexFrame

\* The policy is taken out of the policies file (delete_policy); its chunks
\* are deleted by a task of their own, DeleteChunks.
RemoveDoc(p) ==
    /\ edits < MaxEdits
    /\ docs[p].id # NULL
    /\ docs' = [docs EXCEPT ![p] = NoPolicy]
    /\ edits' = edits + 1
    /\ UNCHANGED <<store, last>>
    /\ IndexFrame

\* reindex_all() = index_policies(force_reindex=True)
ReindexAll == IndexPolicies(NoIds, TRUE)

\* reindex_policy(policy_id) = index_policies([policy_id], force_reindex=True)
ReindexPolicy(p) == IndexPolicies([given |-> TRUE, list |-> {p}], TRUE)

\* insert_chunks(chunks, on_conflict) called directly with the embedded
\* chunks of one policy.
InsertPolicyChunks(p, on_conflict) ==
    /\ docs[p].id # NULL
    /\ store' = InsertChunks(store, EmbedChunks(ChunkPolicy(docs[p])), on_conflict)
    /\ last' = NoSummary
    /\ UNCHANGED <<docs, edits>>
    /\ IndexFrame

\* delete_chunks_by_policy(policy_id) called directly.
DeleteChunks(p) ==
    /\ store' = DeleteByPolicy(store, p)
    /\ last' = NoSummary
    /\ UNCHANGED <<docs, edits>>
    /\ IndexFrame

InitIndex ==
    /\ IdleIndex /\ IdleChunk /\ IdleQuery /\ IdleAssemble /\ IdleSearch
    /\ IdleLater

NextIndex ==
    \/ \E e \in IndexEdits : EditDoc(e[1], e[2], e[3])
    \/ \E p \in IndexRemovals : RemoveDoc(p)
    \/ ReindexAll
    \/ \E ids \in IdsArgs, force \in BOOLEAN : IndexPolicies(ids, force)
    \/ \E p \in PolicyIds : ReindexPolicy(p)
    \/ \E p \in PolicyIds, oc \in {"update", "skip"} : InsertPolicyChunks(p, oc)
    \/ \E p \in PolicyIds : DeleteChunks(p)

SpecIndex == InitIndex /\ [][NextIndex]_vars

-----------------------------------------------------------------------------
(* The chunker alone: a policy is chunked, one criterion is edited, the    *)
(* policy is chunked again.                                                *)

\* Criteria lists of at most n criteria; the criteria of a list all have an
\* id, or none has.
RECURSIVE CriteriaLists(_, _)
CriteriaLists(n, with_ids) ==
    IF n = 0 THEN {<<>>}
    ELSE LET shorter == CriteriaLists(n - 1, with_ids)
         IN  shorter \cup
             {Append(cs, [id |-> IF with_ids THEN "C" \o ToString(n) ELSE NULL,
                          condition |-> "condition0", risk_level |-> risk,
                          action |-> "action0", rationale |-> rat]) :
                 cs \in {x \in shorter : Len(x) = n - 1},
                 risk \in RiskLevels, rat \in {"", "r1"}}

\* The policies handed to chunk_policy.
ChunkerPolicies ==
    {[id |-> "P1", name |-> "N1", category |-> "cardiovascular",
      subcategory |-> "hypertension", description |-> "d", criteria |-> cs,
      modifying_factors |-> mf, references |-> refs] :
        cs \in CriteriaLists(MaxCriteria, TRUE) \cup CriteriaLists(MaxCriteria, FALSE),
        mf \in {<<>>, <<"f1">>}, refs \in {<<>>, <<"ref1">>}}

IdleChunkerRest ==
    /\ cbefore = <<>>
    /\ cafter = <<>>
    /\ cedit = NoEdit

\* chunk_policy(policy)
CChunk ==
    /\ cphase = "new"
    /\ cbefore' = ChunkPolicy(cpolicy)
    /\ cphase' = "chunked"
    /\ UNCHANGED <<cpolicy, cafter, cedit>>
    /\ ChunkFrame

\* One field of criterion i is edited.
CEdit(i, field) ==
    /\ cphase = "chunked"
    /\ i \in 1..Len(cpolicy.criteria)
    /\ cpolicy' = EditCriterion(cpolicy, i, field)
    /\ cedit' = [index |-> i, field |-> field]
    /\ cphase' = "edited"
    /\ UNCHANGED <<cbefore, cafter>>
    /\ ChunkFrame

\* chunk_policy(policy) on the edited policy.
CRechunk ==
    /\ cphase = "edited"
    /\ cafter' = ChunkPolicy(cpolicy)
    /\ cphase' = "rechunked"
    /\ UNCHANGED <<cpolicy, cbefore, cedit>>
    /\ ChunkFrame

InitChunk ==
    /\ IdleIndex /\ IdleQuery /\ IdleAssemble /\ IdleSearch
    /\ IdleLater
    /\ cpolicy \in ChunkerPolicies
    /\ IdleChunkerRest
    /\ cphase = "new"

NextChunk ==
    \/ CChunk
    \/ \E i \in 1..MaxCriteria, field \in CriteriaFields : CEdit(i, field)
    \/ CRechunk

SpecChunk == InitChunk /\ [][NextChunk]_vars

-----------------------------------------------------------------------------
(* service.py: RAGService.query and query_with_fallback                    *)

\* The stages of query(), and those that talk to the chunk store.
Stages == {"initialize", "embed", "hybrid_search", "infer", "intelligent_search", "assemble"}
StoreStages == {"initialize", "hybrid_search", "intelligent_search"}

\* intelligent_search: infer, embed the query, search the store.
IntelligentStages == <<"infer", "embed", "intelligent_search">>

\* A query() that runs intelligent_search whatever hybrid_search returned.
StagesOfAlwaysIntelligent(svc, world) ==
    (IF svc.initialized THEN <<>> ELSE <<"initialize">>)
    \o (IF svc.use_hybrid
        THEN <<"embed", "hybrid_search">> \o IntelligentStages
        ELSE IntelligentStages)
    \o <<"assemble">>

\* The stages one call of query() goes through, as long as none raises:
\* initialize() does nothing once _initialized; hybrid search first when
\* use_hybrid_search, intelligent search when it returns nothing (inference
\* alone otherwise); then assemble_context.
StagesOf(svc, world) ==
    (IF svc.initialized THEN <<>> ELSE <<"initialize">>)
    \o (IF svc.use_hybrid
        THEN <<"embed", "hybrid_search">>
             \o (IF world.hybrid = 0 THEN IntelligentStages ELSE <<"infer">>)
        ELSE IntelligentStages)
    \o <<"assemble">>

\* A stage raises when the world makes it fail: the store is down for every
\* call that reaches it, or this stage is the one that breaks.
Raises(stage, world) ==
    \/ world.fail = stage
    \/ world.down /\ stage \in StoreStages

\* The exception a stage raises.
ExceptionOf(stage, world) ==
    [type |-> IF stage \in StoreStages /\ world.down THEN "ConnectionError" ELSE "RuntimeError",
     message |-> world.msg \o " in " \o stage]

NoException == [type |-> NULL, message |-> NULL]

\* str(e)
Str(e) == e.message

\* The position in `stages` of the first stage that raises, 0 if none does.
RECURSIVE FirstRaise(_, _, _)
FirstRaise(stages, world, k) ==
    IF k > Len(stages) THEN 0
    ELSE IF Raises(stages[k], world) THEN k
    ELSE FirstRaise(stages, world, k + 1)

\* The stages a call of query() entered, the one that raised included.
StagesRun(svc, world) ==
    LET stages == StagesOf(svc, world)
        k == FirstRaise(stages, world, 1)
    IN  IF k = 0 THEN stages ELSE SubSeq(stages, 1, k)

\* The number of results the search stages hand to assemble_context.
Retrieved(svc, world) ==
    IF svc.use_hybrid /\ world.hybrid > 0 THEN world.hybrid ELSE world.intelligent

\* context_text of assemble_context: the no-results text, or the chunks.
ContextText(n) ==
    IF n = 0 THEN "No relevant policy information found."
    ELSE "context of " \o ToString(n) \o " chunks"

\* RAGQueryResult and its defaults.
RAGQueryResult(context, used_fallback, fallback_reason, chunks_retrieved) ==
    [raised |-> FALSE, exception |-> NoException, context |-> context,
     used_fallback |-> used_fallback, fallback_reason |-> fallback_reason,
     chunks_retrieved |-> chunks_retrieved]

\* An exception leaving the call.
Raised(e) ==
    [raised |-> TRUE, exception |-> e, context |-> NULL,
     used_fallback |-> FALSE, fallback_reason |-> NULL, chunks_retrieved |-> 0]

\* A query() whose except clause does not cover initialize().
QueryInitOutsideTry(svc, world) ==
    LET stages == StagesOf(svc, world)
        k == FirstRaise(stages, world, 1)
    IN  IF k = 0
        THEN RAGQueryResult(ContextText(Retrieved(svc, world)), FALSE, NULL,
                            Retrieved(svc, world))
        ELSE IF stages[k] = "initialize" THEN Raised(ExceptionOf(stages[k], world))
        ELSE RAGQueryResult("", TRUE, Str(ExceptionOf(stages[k], world)), 0)

\* query(): the try body runs the stages; `except Exception as e` returns
\* RAGQueryResult(context="", used_fallback=True, fallback_reason=str(e)).
Query(svc, world) ==
    LET stages == StagesOf(svc, world)
        k == FirstRaise(stages, world, 1)
    IN  IF k = 0
        THEN RAGQueryResult(ContextText(Retrieved(svc, world)), FALSE, NULL,
                            Retrieved(svc, world))
        ELSE RAGQueryResult("", TRUE, Str(ExceptionOf(stages[k], world)), 0)

\* self._initialized after the call: set by an initialize() that did not
\* raise.
InitializedAfter(svc, world) ==
    svc.initialized \/ ~Raises("initialize", world)

\* The reason of query() handed on as it is.
OrNoChunksKeep(reason) == reason

\* `x or "no chunks retrieved"`
OrNoChunks(reason) ==
    IF reason = NULL \/ reason = "" THEN "no chunks retrieved" ELSE reason

\* A query_with_fallback() that hands on what query() returned.
QueryWithFallbackPassThrough(svc, world, fallback_context) == Query(svc, world)

\* query_with_fallback(): the fallback context replaces the result when
\* query() fell back or retrieved nothing.
QueryWithFallback(svc, world, fallback_context) ==
    LET result == Query(svc, world)
    IN  IF result.raised THEN result
        ELSE IF result.used_fallback \/ result.chunks_retrieved = 0
        THEN RAGQueryResult(fallback_context, TRUE, OrNoChunks(result.fallback_reason), 0)
        ELSE result

\* Results a search returns at most.
MaxResults == 2

\* The worlds a call runs in: the store down or not, one more stage that
\* breaks or none, the exception's message, what the searches would return.
Worlds ==
    [down : BOOLEAN, fail : Stages \cup {NULL}, msg : {"boom"},
     hybrid : 0..MaxResults, intelligent : 0..MaxResults]

\* The full policy context the caller formats as fallback.
FallbackContexts == {"FALLBACK: Full policy context here", "## Underwriting Policies"}

NoQueryCall == [op |-> NULL]
NoQueryResult == [raised |-> FALSE]

\* await rag_service.query(user_query)
CallQuery(world) ==
    /\ qres' = Query(qsvc, world)
    /\ qcall' = [op |-> "query", world |-> world, fallback_context |-> NULL,
                 svc |-> qsvc, ran |-> StagesRun(qsvc, world)]
    /\ qsvc' = [qsvc EXCEPT !.initialized = InitializedAfter(qsvc, world)]
    /\ QueryFrame

\* await rag_service.query_with_fallback(user_query, fallback_context)
CallQueryWithFallback(world, fallback_context) ==
    /\ qres' = QueryWithFallback(qsvc, world, fallback_context)
    /\ qcall' = [op |-> "query_with_fallback", world |-> world,
                 fallback_context |-> fallback_context, svc |-> qsvc,
                 ran |-> StagesRun(qsvc, world)]
    /\ qsvc' = [qsvc EXCEPT !.initialized = InitializedAfter(qsvc, world)]
    /\ QueryFrame

\* RAGService(use_hybrid_search=...)
InitQuery ==
    /\ IdleIndex /\ IdleChunk /\ IdleAssemble /\ IdleSearch
    /\ IdleLater
    /\ qsvc \in [initialized : {FALSE}, use_hybrid : BOOLEAN]
    /\ qcall = NoQueryCall
    /\ qres = NoQueryResult

NextQuery ==
    \/ \E world \in Worlds : CallQuery(world)
    \/ \E world \in Worlds, fb \in FallbackContexts : CallQueryWithFallback(world, fb)

SpecQuery == InitQuery /\ [][NextQuery]_vars

-----------------------------------------------------------------------------
(* context.py: RAGContextBuilder.assemble_context, on token counts         *)

\* DEFAULT_CHUNK_OVERHEAD
DEFAULT_CHUNK_OVERHEAD == 50
\* `if remaining_tokens > 100`: a partial chunk is worth including.
WorthIncluding == 100
\* estimate_tokens_needed: "Add header/footer overhead".
HeaderFooterOverhead == 100

\* Results handed to assemble_context at most.
MaxAssembled == 3

\* max_tokens, and what count_tokens gives for the header, for the first two
\* lines of the footer, for a source line of the footer ("- id: name") and
\* for the text of a formatted chunk.
Budgets == {300, 400}
HeaderTokens == {10, 20}
FooterHeadTokens == {5}
SourceLineTokens == {12, 60}
ChunkTokens == {20, 150}

\* The SearchResults that can be handed over: what a citation takes from
\* each (similarity in hundredths), next to the token count of its text.
CitedChunks ==
    {[policy_id |-> "P1", chunk_type |-> "policy_summary", criteria_id |-> NULL,
      similarity |-> 90],
     [policy_id |-> "P2", chunk_type |-> "criteria", criteria_id |-> "C1",
      similarity |-> 80],
     [policy_id |-> "P3", chunk_type |-> "criteria", criteria_id |-> "C2",
      similarity |-> 70]}

SearchResult(chunk, tokens) ==
    [policy_id |-> chunk.policy_id, chunk_type |-> chunk.chunk_type,
     criteria_id |-> chunk.criteria_id, similarity |-> chunk.similarity,
     tokens |-> tokens]

RECURSIVE ResultLists(_)
ResultLists(n) ==
    IF n = 0 THEN {<<>>}
    ELSE LET shorter == ResultLists(n - 1)
         IN  shorter \cup
             {Append(rs, SearchResult(c, t)) :
                 rs \in {x \in shorter : Len(x) = n - 1},
                 c \in CitedChunks, t \in ChunkTokens}

\* _create_citation(result), without the fields that are only displayed
\* (policy_name, category, risk_level).
CreateCitationNoCriteria(result) ==
    [policy_id |-> result.policy_id, chunk_type |-> result.chunk_type,
     criteria_id |-> NULL, similarity |-> result.similarity]

CreateCitation(result) ==
    [policy_id |-> result.policy_id, chunk_type |-> result.chunk_type,
     criteria_id |-> result.criteria_id, similarity |-> result.similarity]

\* `if remaining_tokens > 100`
WorthPartialAlways(remaining_tokens) == TRUE

WorthPartial(remaining_tokens) == remaining_tokens > WorthIncluding

\* count_tokens(_truncate_to_tokens(text, max_tokens)): the first max_tokens
\* tokens decoded, right-stripped, "..." appended and encoded again; the
\* tokenizer decides whether the ellipsis costs another token.
TruncatedTokens(tokens, max_tokens, ellipsis) ==
    IF tokens <= max_tokens THEN tokens ELSE max_tokens + ellipsis

\* count_tokens(_format_footer(citations)): empty without citations, else the
\* two head lines and one line per distinct policy cited.
FooterTokens(citations, arg) ==
    IF citations = <<>> THEN 0
    ELSE arg.footer_head
         + arg.source_line
           * Cardinality({citations[i].policy_id : i \in DOMAIN citations})

\* The loop over the results, from result k on; acc holds tokens_used,
\* chunks_included, chunks_truncated, the citations and, for context_parts,
\* which result each chunk part is the text of and whether it was cut.
RECURSIVE AddResults(_, _, _)
AddResults(acc, arg, k) ==
    IF k > Len(arg.results) THEN acc
    ELSE
      LET result == arg.results[k]
          chunk_tokens == result.tokens + DEFAULT_CHUNK_OVERHEAD
          remaining_tokens == arg.max_tokens - acc.tokens_used - DEFAULT_CHUNK_OVERHEAD
      IN  IF acc.tokens_used + chunk_tokens > arg.max_tokens
          THEN IF WorthPartial(remaining_tokens)
               THEN [tokens_used |-> acc.tokens_used
                                     + TruncatedTokens(result.tokens, remaining_tokens,
                                                       arg.ellipsis)
                                     + DEFAULT_CHUNK_OVERHEAD,
                     chunks_included |-> acc.chunks_included + 1,
                     chunks_truncated |-> acc.chunks_truncated + 1,
                     citations |-> Append(acc.citations, CreateCitation(result)),
                     parts |-> Append(acc.parts, [result |-> k, truncated |-> TRUE])]
               ELSE acc
          ELSE AddResults(
                 [tokens_used |-> acc.tokens_used + chunk_tokens,
                  chunks_included |-> acc.chunks_included + 1,
                  chunks_truncated |-> acc.chunks_truncated,
                  citations |-> Append(acc.citations, CreateCitation(result)),
                  parts |-> Append(acc.parts, [result |-> k, truncated |-> FALSE])],
                 arg, k + 1)

\* assemble_context(results, query): nothing for no results; else header,
\* chunks within the budget, footer.
AssembleContext(arg) ==
    IF arg.results = <<>>
    THEN [total_tokens |-> 0, chunks_included |-> 0, chunks_truncated |-> 0,
          citations |-> <<>>, footer_tokens |-> 0, parts |-> <<>>]
    ELSE LET start == [tokens_used |-> arg.header, chunks_included |-> 0,
                       chunks_truncated |-> 0, citations |-> <<>>,
                       parts |-> <<>>]
             acc == AddResults(start, arg, 1)
             footer == FooterTokens(acc.citations, arg)
         IN  [total_tokens |-> acc.tokens_used + footer,
              chunks_included |-> acc.chunks_included,
              chunks_truncated |-> acc.chunks_truncated,
              citations |-> acc.citations, footer_tokens |-> footer,
              parts |-> acc.parts]

NoContext == [total_tokens |-> -1]

\* builder.assemble_context(results, query)
Assemble ==
    /\ ares = NoContext
    /\ ares' = AssembleContext(aarg)
    /\ UNCHANGED aarg
    /\ AssembleFrame

InitAssemble ==
    /\ IdleIndex /\ IdleChunk /\ IdleQuery /\ IdleSearch
    /\ IdleLater
    /\ aarg \in [max_tokens : Budgets, header : HeaderTokens,
                 footer_head : FooterHeadTokens, source_line : SourceLineTokens,
                 ellipsis : {0, 1}, results : ResultLists(MaxAssembled)]
    /\ ares = NoContext

NextAssemble == Assemble

SpecAssemble == InitAssemble /\ [][NextAssemble]_vars

-----------------------------------------------------------------------------
(* search.py: PolicySearchService.  Similarities are hundredths in the     *)
(* table and thousandths in the results.                                   *)

\* top_k at most.
MaxTopK == 4

\* The rows of policy_chunks that the searches run over: the header and a
\* criteria chunk of P1, the header of P2.
SearchChunks ==
    <<[policy_id |-> "P1", chunk_type |-> "policy_header",
       category |-> "cardiovascular", risk_level |-> NULL],
      [policy_id |-> "P1", chunk_type |-> "criteria",
       category |-> "cardiovascular", risk_level |-> "High"],
      [policy_id |-> "P2", chunk_type |-> "policy_header",
       category |-> "metabolic", risk_level |-> NULL]>>
ChunkIds == DOMAIN SearchChunks

\* Cosine similarity of a row's embedding to the query's, and trigram
\* similarity of its content to the query.
SemLevels == {20, 60, 97}
LexLevels == {0, 50}
\* similarity_threshold
Thresholds == {50}
\* The query: a policy id typed in lower case, or another text.
Queries == {"p1", "blood pressure"}

\* UPPER($2)
Upper(text) == IF text = "p1" THEN "P1" ELSE text

Max(a, b) == IF a >= b THEN a ELSE b
Min(a, b) == IF a <= b THEN a ELSE b

\* 1 - (embedding <=> $1::vector) as similarity
SemanticScore(arg, c) == 10 * arg.sem[c]

\* `similarity(content, $2) > 0.1`
TrigramFloor == 10
\* `CASE WHEN UPPER(policy_id) = UPPER($2) THEN 0.95 ELSE 0 END`
ExactMatchBoost == 950
\* hybrid_search(text_weight=0.3, vector_weight=0.7): the parameters are
\* bound as $3 = vector_weight, $4 = text_weight.
TextWeight == 3
VectorWeight == 7

ExactMatch(arg, c) == Upper(SearchChunks[c].policy_id) = Upper(arg.query)

\* GREATEST(semantic, $4 * semantic + $3 * trigram, exact-match boost)
HybridScore(arg, c) ==
    Max(Max(SemanticScore(arg, c),
            TextWeight * arg.sem[c] + VectorWeight * arg.lex[c]),
        IF ExactMatch(arg, c) THEN ExactMatchBoost ELSE 0)

\* The sort keys of all rows.
SemanticScores(arg) == [c \in ChunkIds |-> SemanticScore(arg, c)]
HybridScores(arg) == [c \in ChunkIds |-> HybridScore(arg, c)]

\* The WHERE clauses.
SemanticWhere(arg) == {c \in ChunkIds : arg.sem[c] >= arg.threshold}
FilteredWhere(arg, category) ==
    {c \in SemanticWhere(arg) : category # NULL => SearchChunks[c].category = category}
HybridWhere(arg) ==
    {c \in ChunkIds : \/ arg.sem[c] >= arg.threshold
                      \/ arg.lex[c] > TrigramFloor
                      \/ ExactMatch(arg, c)}
PolicyWhere(policy_id) == {c \in ChunkIds : SearchChunks[c].policy_id = policy_id}

\* SearchResult
Result(c, similarity) == [chunk_id |-> c, similarity |-> similarity]

\* ORDER BY ... LIMIT top_k: every order of the selected rows that descends
\* in the sort key `score`, rows with equal keys in any order, cut at top_k.
Fetch(selected, score, top_k) ==
    LET n == Cardinality(selected)
        orders == {o \in [1..n -> selected] :
                      /\ \A i, j \in 1..n : i # j => o[i] # o[j]
                      /\ \A i, j \in 1..n : i < j => score[o[i]] >= score[o[j]]}
    IN  {[i \in 1..Min(n, top_k) |-> Result(o[i], score[o[i]])] : o \in orders}

\* semantic_search: ORDER BY embedding <=> $1 (distance ascending).
SemanticSearch(arg) ==
    Fetch(SemanticWhere(arg), SemanticScores(arg), arg.top_k)

\* filtered_search with a category filter.
FilteredSearch(arg, category) ==
    Fetch(FilteredWhere(arg, category), SemanticScores(arg), arg.top_k)

\* hybrid_search: vector-only without pg_trgm.
HybridSearch(arg) ==
    IF ~arg.trgm THEN SemanticSearch(arg)
    ELSE Fetch(HybridWhere(arg), HybridScores(arg), arg.top_k)

\* search_by_policy with a query.
SearchByPolicy(arg, policy_id) ==
    Fetch(PolicyWhere(policy_id), SemanticScores(arg), arg.top_k)

\* list.sort(key=similarity, reverse=True): stable, descending.
RECURSIVE InsertDesc(_, _)
InsertDesc(sorted, r) ==
    IF sorted = <<>> THEN <<r>>
    ELSE IF Head(sorted).similarity >= r.similarity
         THEN <<Head(sorted)>> \o InsertDesc(Tail(sorted), r)
         ELSE <<r>> \o sorted

RECURSIVE SortDesc(_)
SortDesc(results) ==
    IF results = <<>> THEN <<>>
    ELSE InsertDesc(SortDesc(SubSeq(results, 1, Len(results) - 1)),
                    results[Len(results)])

\* "Deduplicate by chunk_id": the unfiltered results not seen yet, appended.
Supplement(results, unfiltered) ==
    results \o SelectSeq(unfiltered,
                         LAMBDA u : \A i \in 1..Len(results) : results[i].chunk_id # u.chunk_id)

\* The supplemented list left as appended.
MergeNoSort(results, unfiltered, top_k) ==
    SubSeq(Supplement(results, unfiltered), 1,
           Min(top_k, Len(Supplement(results, unfiltered))))

\* Supplement, "Re-sort by similarity", "Limit to top_k".
Merge(results, unfiltered, top_k) ==
    LET all == SortDesc(Supplement(results, unfiltered))
    IN  SubSeq(all, 1, Min(top_k, Len(all)))

\* intelligent_search: the lists it can return and the path taken.
IntelligentSearch(arg) ==
    IF arg.inferred # NULL
    THEN UNION {IF Len(results) < arg.top_k \div 2
                THEN {[path |-> "merged", results |-> Merge(results, unfiltered, arg.top_k)] :
                         unfiltered \in SemanticSearch(arg)}
                ELSE {[path |-> "filtered", results |-> results]} :
                   results \in FilteredSearch(arg, arg.inferred)}
    ELSE {[path |-> "unfiltered", results |-> results] : results \in SemanticSearch(arg)}

NoSearch == [op |-> NULL, path |-> NULL, results |-> <<>>]

\* A search returns one of the lists it can return.
Returns(op, outs) ==
    /\ sres = NoSearch
    /\ \E out \in outs : sres' = [op |-> op, path |-> out.path, results |-> out.results]
    /\ UNCHANGED sarg
    /\ SearchFrame

Lists(results) == {[path |-> NULL, results |-> r] : r \in results}

DoSemanticSearch == Returns("semantic_search", Lists(SemanticSearch(sarg)))
DoFilteredSearch(category) ==
    Returns("filtered_search", Lists(FilteredSearch(sarg, category)))
DoHybridSearch == Returns("hybrid_search", Lists(HybridSearch(sarg)))
DoSearchByPolicy(policy_id) ==
    Returns("search_by_policy", Lists(SearchByPolicy(sarg, policy_id)))
DoIntelligentSearch == Returns("intelligent_search", IntelligentSearch(sarg))

InitSearch ==
    /\ IdleIndex /\ IdleChunk /\ IdleQuery /\ IdleAssemble
    /\ IdleLater
    /\ sarg \in [sem : [ChunkIds -> SemLevels], lex : [ChunkIds -> LexLevels],
                 query : Queries, top_k : 1..MaxTopK, threshold : Thresholds,
                 trgm : BOOLEAN, inferred : {NULL, "cardiovascular"}]
    /\ sres = NoSearch

NextSearch ==
    \/ DoSemanticSearch
    \/ \E category \in {NULL, "cardiovascular", "metabolic"} : DoFilteredSearch(category)
    \/ DoHybridSearch
    \/ \E policy_id \in PolicyIds : DoSearchByPolicy(policy_id)
    \/ DoIntelligentSearch

SpecSearch == InitSearch /\ [][NextSearch]_vars

-----------------------------------------------------------------------------
(* Two index_policies runs over one table, one store operation at a time   *)
(* (indexer.py steps 2 and 5, repository.py)                               *)

Runners == {"r1", "r2"}

\* The policies file as it was before condition 1 of P1 got its present text.
StaleDocs == [InitialDocs EXCEPT !["P1"] = EditCriterion(@, 1, "condition")]

\* The tables the runs may find: empty, indexed from the present file, or
\* indexed from the file as it was.
StartTables ==
    {EmptyBag,
     Indexed(EmptyBag, LoadPolicies(InitialDocs, NoIds), FALSE),
     Indexed(EmptyBag, LoadPolicies(StaleDocs, NoIds), FALSE)}

\* Step 2 as store operations: one delete_chunks_by_policy per policy.
DeleteOps(force, policies) ==
    LET ids == ForceDeletes(force, policies)
    IN  [i \in 1..Len(ids) |-> [op |-> "delete", policy_id |-> ids[i]]]

\* Steps 3 to 5 as store operations: one statement per chunk.
UpsertOps(policies) ==
    LET chunks == EmbedChunks(ChunkAll(policies))
    IN  [i \in 1..Len(chunks) |-> [op |-> "upsert", chunk |-> chunks[i]]]

\* Step 4: embed_chunks, which asks the provider and leaves the store alone.
EmbedOp == <<[op |-> "embed"]>>

\* The deletes made only after the chunks have been stored.
RunOpsDeleteLast(policies, force) ==
    EmbedOp \o UpsertOps(policies) \o DeleteOps(force, policies)

\* The embeddings requested before anything is deleted.
RunOpsEmbedFirst(policies, force) ==
    EmbedOp \o DeleteOps(force, policies) \o UpsertOps(policies)

\* The operations of one index_policies run, in program order.
RunOps(policies, force) ==
    DeleteOps(force, policies) \o EmbedOp \o UpsertOps(policies)

\* One operation on the store.
ApplyOp(tbl, o) ==
    IF o.op = "delete" THEN DeleteByPolicy(tbl, o.policy_id)
    ELSE IF o.op = "embed" THEN tbl
    ELSE IF o.chunk.embedding = NULL THEN tbl
    ELSE Upsert(tbl, o.chunk, "update")

IdleRun == [pc |-> "idle", force |-> FALSE, ops |-> <<>>, at |-> 0]

\* The run has stored a chunk of the policy.
HasStored(run, policy_id) ==
    \E j \in 1..(run.at - 1) :
        /\ run.ops[j].op = "upsert"
        /\ run.ops[j].chunk.policy_id = policy_id

\* index_policies up to its first operation: load and filter; "skipped"
\* when nothing is loaded.
WBegin(r, force) ==
    /\ wrun[r].pc = "idle"
    /\ LET policies == LoadPolicies(InitialDocs, wcfg.ids)
           ops == RunOps(policies, force)
       IN  wrun' = [wrun EXCEPT ![r] =
                       [pc |-> IF policies = <<>> THEN "done" ELSE "running",
                        force |-> force, ops |-> ops, at |-> 1]]
    /\ UNCHANGED <<wcfg, wstore, wraced>>
    /\ ConcFrame

\* The next operation of a run; the run returns after its last one.
WStep(r) ==
    /\ wrun[r].pc = "running"
    /\ LET run == wrun[r]
           o == run.ops[run.at]
       IN  /\ wstore' = ApplyOp(wstore, o)
           /\ wrun' = [wrun EXCEPT ![r].at = run.at + 1,
                                   ![r].pc = IF run.at = Len(run.ops)
                                             THEN "done" ELSE "running"]
           /\ wraced' = (wraced \/ (o.op = "delete" /\
                           \E q \in Runners \ {r} : HasStored(wrun[q], o.policy_id)))
    /\ UNCHANGED wcfg
    /\ ConcFrame

\* The operation a run has come to raises (the store or the provider
\* fails); nothing in index_policies catches it.
WRaise(r) ==
    /\ wrun[r].pc = "running"
    /\ wrun' = [wrun EXCEPT ![r].pc = "raised"]
    /\ UNCHANGED <<wcfg, wstore, wraced>>
    /\ ConcFrame

InitConc ==
    /\ IdleFirst /\ IdleBatch /\ IdleEmbed /\ IdlePool /\ IdleInfer /\ IdleApi
    /\ wcfg \in [ids : IdsArgs, start : StartTables]
    /\ wrun = [r \in Runners |-> IdleRun]
    /\ wstore = wcfg.start
    /\ wraced = FALSE

NextConc ==
    \/ \E r \in Runners, force \in BOOLEAN : WBegin(r, force)
    \/ \E r \in Runners : WStep(r)
    \/ \E r \in Runners : WRaise(r)

SpecConc == InitConc /\ [][NextConc]_vars

-----------------------------------------------------------------------------
(* insert_chunks with chunks that fail (repository.py)                     *)

\* The loop of insert_chunks from chunk i on: a chunk without an embedding
\* is skipped with a warning; a statement that raises is logged and raised
\* again, which leaves the loop; `fail` is the index of the statement that
\* raises (0: none does).
RECURSIVE InsertFrom(_, _, _, _, _, _)
InsertFrom(tbl, chunks, on_conflict, fail, i, inserted) ==
    IF i > Len(chunks)
    THEN [table |-> tbl, raised |-> FALSE, inserted |-> inserted]
    ELSE IF chunks[i].embedding = NULL
    THEN InsertFrom(tbl, chunks, on_conflict, fail, i + 1, inserted)
    ELSE IF i = fail
    THEN [table |-> tbl, raised |-> TRUE, inserted |-> inserted]
    ELSE InsertFrom(Upsert(tbl, chunks[i], on_conflict), chunks, on_conflict,
                    fail, i + 1, inserted + 1)

\* insert_chunks(chunks, on_conflict) when statement `fail` raises.
InsertBatch(tbl, chunks, on_conflict, fail) ==
    IF chunks = <<>> THEN [table |-> tbl, raised |-> FALSE, inserted |-> 0]
    ELSE InsertFrom(tbl, chunks, on_conflict, fail, 1, 0)

\* The chunks of a policy, those in `missing` left without an embedding.
BatchOf(p, missing) ==
    LET chunks == ChunkPolicy(InitialDocs[p])
    IN  [i \in 1..Len(chunks) |->
            IF i \in missing THEN chunks[i]
            ELSE [chunks[i] EXCEPT !.embedding = "vec"]]

\* At most one chunk of the batch lacks its embedding.
MissingSets(p) ==
    {{}} \cup {{i} : i \in 1..Len(ChunkPolicy(InitialDocs[p]))}

NoBatch == [chunks |-> <<>>, on_conflict |-> "update", fail |-> 0]
NoBatchResult == [raised |-> FALSE, inserted |-> 0]

\* A caller stores a batch with insert_chunks (one batch in a behaviour).
CallInsertChunks(p, missing, on_conflict, fail) ==
    /\ bcall = NoBatch
    /\ LET chunks == BatchOf(p, missing)
           out == InsertBatch(bstore, chunks, on_conflict, fail)
       IN  /\ fail \in 0..Len(chunks)
           /\ bstore' = out.table
           /\ bcall' = [chunks |-> chunks, on_conflict |-> on_conflict,
                        fail |-> fail]
           /\ bres' = [raised |-> out.raised, inserted |-> out.inserted]
    /\ BatchFrame

InitBatch ==
    /\ IdleFirst /\ IdleConc /\ IdleEmbed /\ IdlePool /\ IdleInfer /\ IdleApi
    /\ bstore \in StartTables
    /\ bcall = NoBatch
    /\ bres = NoBatchResult

NextBatch ==
    \E p \in PolicyIds, on_conflict \in {"update", "skip"} :
        \E missing \in MissingSets(p),
           fail \in 0..Len(ChunkPolicy(InitialDocs[p])) :
            CallInsertChunks(p, missing, on_conflict, fail)

SpecBatch == InitBatch /\ [][NextBatch]_vars

-----------------------------------------------------------------------------
(* inference.py, and the filter intelligent_search derives (search.py)     *)

\* Most pattern hits of a query in one category.
MaxHits == 2

\* Categories of CATEGORY_KEYWORDS, in the order of the dict.
Categories == <<"cardiovascular", "metabolic", "endocrine">>

\* 0.2 of confidence per pattern hit, 1.0 at most (tenths).
ConfidencePerMatch == 2
FullConfidence == 10
\* Default llm_threshold of infer_async and the bound of intelligent_search.
DefaultLlmThreshold == 3
FilterConfidence == 3
\* Confidence of an answer of the model that states none.
DefaultLlmConfidence == 7

\* SUBCATEGORY_KEYWORDS: the subcategories defined under each category, in the
\* order of the dict (the first of each category).
SubcategoryTable ==
    [c \in SeqToSet(Categories) |->
        IF c = "cardiovascular" THEN <<"hypertension">>
        ELSE IF c = "metabolic" THEN <<"cholesterol">>
        ELSE <<"diabetes">>]

\* A query is what the patterns find in it: hits per category, the
\* subcategories a pattern of which matches, whether a pattern of risk level
\* High matches.
KeywordQueries ==
    [hits : [SeqToSet(Categories) -> 0..MaxHits],
     subs : SUBSET {"hypertension", "cholesterol"}, risk : BOOLEAN]

\* The second loop of infer_from_keywords: for each matched category in
\* order, its subcategories with a matching pattern.
RECURSIVE MatchSubcategories(_, _)
MatchSubcategories(query, categories) ==
    IF categories = <<>> THEN <<>>
    ELSE SelectSeq(SubcategoryTable[Head(categories)], LAMBDA s : s \in query.subs)
         \o MatchSubcategories(query, Tail(categories))

RECURSIVE SumHits(_, _)
SumHits(hits, cats) ==
    IF cats = <<>> THEN 0 ELSE hits[Head(cats)] + SumHits(hits, Tail(cats))

InferredContext(categories, subcategories, risk_levels, confidence, method) ==
    [categories |-> categories, subcategories |-> subcategories,
     risk_levels |-> risk_levels, confidence |-> confidence, method |-> method]

\* InferredContext.has_filters
HasFilters(inferred) ==
    \/ inferred.categories # <<>>
    \/ inferred.subcategories # <<>>
    \/ inferred.risk_levels # <<>>

\* infer_from_keywords with subcategory and risk-level hits counted in.
InferFromKeywordsCountAll(query) ==
    LET categories == SelectSeq(Categories, LAMBDA c : query.hits[c] > 0)
        subcategories == MatchSubcategories(query, categories)
        risk_levels == IF query.risk THEN <<"High">> ELSE <<>>
        total_matches == SumHits(query.hits, Categories) + Len(subcategories)
                         + Len(risk_levels)
        confidence == IF total_matches > 0
                      THEN Min(FullConfidence, total_matches * ConfidencePerMatch)
                      ELSE 0
    IN  InferredContext(categories, subcategories, risk_levels, confidence,
                        "keyword")

\* infer_from_keywords: categories in dict order, subcategories of matched
\* categories only.
InferFromKeywords(query) ==
    LET categories == SelectSeq(Categories, LAMBDA c : query.hits[c] > 0)
        subcategories == MatchSubcategories(query, categories)
        risk_levels == IF query.risk THEN <<"High">> ELSE <<>>
        total_matches == SumHits(query.hits, Categories)
        confidence == IF total_matches > 0
                      THEN Min(FullConfidence, total_matches * ConfidencePerMatch)
                      ELSE 0
    IN  InferredContext(categories, subcategories, risk_levels, confidence,
                        "keyword")

\* What the model does when asked: the request fails, the answer does not
\* parse, or it is a JSON object with categories, risk_level_hint and,
\* when `stated`, confidence.
NoAnswer ==
    [categories |-> <<>>, risk_level_hint |-> NULL, stated |-> FALSE,
     confidence |-> 0]
Answers ==
    [categories : {<<>>, <<"endocrine">>, <<"oncology", "endocrine", "metabolic">>},
     risk_level_hint : {NULL, "High"},
     stated : BOOLEAN, confidence : {2}]
LlmWorlds ==
    [configured : BOOLEAN, outcome : {"network_error", "unparsable"},
     answer : {NoAnswer}]
    \cup [configured : BOOLEAN, outcome : {"answer"}, answer : Answers]

\* The InferredContext built from a parsed answer.
FromAnswer(answer) ==
    InferredContext(
        SelectSeq(answer.categories, LAMBDA c : c \in SeqToSet(Categories)),
        <<>>,
        IF answer.risk_level_hint \in {"Low", "Moderate", "High"}
        THEN <<answer.risk_level_hint>> ELSE <<>>,
        IF answer.stated THEN answer.confidence ELSE DefaultLlmConfidence,
        "llm")

NoInferred == InferredContext(<<>>, <<>>, <<>>, 0, NULL)

\* infer_with_llm without its except clause.
InferWithLlmNoCatch(query, world) ==
    IF ~world.configured
    THEN [raised |-> FALSE, value |-> InferFromKeywords(query), requests |-> 0]
    ELSE IF world.outcome = "answer"
    THEN [raised |-> FALSE, value |-> FromAnswer(world.answer), requests |-> 1]
    ELSE [raised |-> TRUE, value |-> NoInferred, requests |-> 1]

\* infer_with_llm: the keyword result when not configured and when anything
\* in the try block raises.
InferWithLlm(query, world) ==
    IF ~world.configured
    THEN [raised |-> FALSE, value |-> InferFromKeywords(query), requests |-> 0]
    ELSE IF world.outcome = "answer"
    THEN [raised |-> FALSE, value |-> FromAnswer(world.answer), requests |-> 1]
    ELSE [raised |-> FALSE, value |-> InferFromKeywords(query), requests |-> 1]

\* infer_async(query, use_llm, llm_threshold)
InferAsync(query, use_llm, llm_threshold, world) ==
    LET keyword_result == InferFromKeywords(query)
    IN  IF ~use_llm \/ keyword_result.confidence >= llm_threshold
        THEN [raised |-> FALSE, value |-> keyword_result, requests |-> 0,
              llm_invoked |-> FALSE]
        ELSE LET out == InferWithLlm(query, world)
             IN  [raised |-> out.raised, value |-> out.value,
                  requests |-> out.requests, llm_invoked |-> TRUE]

\* intelligent_search: the filter handed to filtered_search, when one is.
NoFilter == [applied |-> FALSE, category |-> NULL, subcategory |-> NULL]
FilterOf(inferred) ==
    IF HasFilters(inferred) /\ inferred.confidence >= FilterConfidence
    THEN [applied |-> TRUE,
          category |-> IF inferred.categories # <<>>
                       THEN inferred.categories[1] ELSE NULL,
          subcategory |-> IF inferred.subcategories # <<>>
                          THEN inferred.subcategories[1] ELSE NULL]
    ELSE NoFilter

LlmThresholds == {DefaultLlmThreshold, DefaultLlmThreshold + 1}
NoInference ==
    [op |-> NULL, use_llm |-> FALSE, llm_threshold |-> DefaultLlmThreshold,
     out |-> [raised |-> FALSE, value |-> NoInferred, requests |-> 0,
              llm_invoked |-> FALSE],
     filter |-> NoFilter]

\* A caller (RAGService.query) awaits infer_async.
CallInferAsync(use_llm, llm_threshold) ==
    /\ ires' = [op |-> "infer_async", use_llm |-> use_llm,
                llm_threshold |-> llm_threshold,
                out |-> InferAsync(iarg.query, use_llm, llm_threshold, iarg.world),
                filter |-> NoFilter]
    /\ UNCHANGED iarg
    /\ InferFrame

\* intelligent_search up to the choice of its filter.
CallIntelligentSearch(use_llm_inference) ==
    /\ LET out == InferAsync(iarg.query, use_llm_inference,
                             DefaultLlmThreshold, iarg.world)
       IN  ires' = [op |-> "intelligent_search", use_llm |-> use_llm_inference,
                    llm_threshold |-> DefaultLlmThreshold, out |-> out,
                    filter |-> IF out.raised THEN NoFilter
                               ELSE FilterOf(out.value)]
    /\ UNCHANGED iarg
    /\ InferFrame

InitInfer ==
    /\ IdleFirst /\ IdleConc /\ IdleBatch /\ IdleEmbed /\ IdlePool /\ IdleApi
    /\ iarg \in [query : KeywordQueries, world : LlmWorlds]
    /\ ires = NoInference

NextInfer ==
    \/ \E use_llm \in BOOLEAN, llm_threshold \in LlmThresholds :
          CallInferAsync(use_llm, llm_threshold)
    \/ \E use_llm_inference \in BOOLEAN : CallIntelligentSearch(use_llm_inference)

SpecInfer == InitInfer /\ [][NextInfer]_vars

-----------------------------------------------------------------------------
(* embeddings.py: get_embeddings_batch and its retry loop                  *)

\* EmbeddingService.MAX_BATCH_SIZE
MAX_BATCH_SIZE == 100

\* Largest max_retries a caller passes (the default is 3).
MaxRetries == 3

\* len(texts): only the number of texts matters to the control flow.
TextCounts == {0, 1, MAX_BATCH_SIZE, MAX_BATCH_SIZE + 1}

\* What one requests.post can come to: a response with a status (for 200,
\* whether it carries one embedding per text; for 429, its Retry-After
\* header: none, a number of seconds, or an HTTP date), a timeout, or
\* another RequestException.
Response(kind, status, full, retry_after) ==
    [kind |-> kind, status |-> status, full |-> full, retry_after |-> retry_after]
Responses ==
    {Response("http", 200, TRUE, "none"), Response("http", 200, FALSE, "none"),
     Response("http", 429, FALSE, "seconds"), Response("http", 429, FALSE, "none"),
     Response("http", 429, FALSE, "date"),
     Response("http", 400, FALSE, "none"), Response("http", 404, FALSE, "none"),
     Response("http", 500, FALSE, "none"),
     Response("timeout", 0, FALSE, "none"), Response("network", 0, FALSE, "none")}

\* len(texts) > self.MAX_BATCH_SIZE never true.
TooManyNever(n) == FALSE

\* len(texts) > self.MAX_BATCH_SIZE
TooMany(n) == n > MAX_BATCH_SIZE

\* Client errors retried like server errors.
ClientErrorNever(status) == FALSE

\* 400 <= response.status_code < 500 (reached only when the status is
\* neither 200 nor 429).
ClientError(status) == 400 <= status /\ status < 500

Posted(attempt, response) == [ev |-> "post", attempt |-> attempt, response |-> response]
Slept(attempt, why) == [ev |-> "sleep", attempt |-> attempt, why |-> why]

NoEmbedCall == [n |-> 0, max_retries |-> 0, configured |-> FALSE]
NoEmbedResult == [raised |-> FALSE, type |-> NULL, error |-> NULL, embeddings |-> 0]
EmbeddingError(msg) ==
    [raised |-> TRUE, type |-> "EmbeddingError", error |-> msg, embeddings |-> 0]

\* int(response.headers.get("Retry-After", ...)) on a header that is not a
\* number of seconds.
ValueError ==
    [raised |-> TRUE, type |-> "ValueError",
     error |-> "invalid literal for int()", embeddings |-> 0]

\* `raise last_error or EmbeddingError("Embedding generation failed")`
OrGenerationFailed(last_error) ==
    IF last_error = NULL THEN "Embedding generation failed" ELSE last_error

\* get_embeddings_batch(texts, max_retries) up to the retry loop: [] for no
\* texts, the batch limit, the settings, the request built; a loop of no
\* iterations when max_retries is 0.
EmbedCall(n, max_retries, configured) ==
    /\ epc = "idle"
    /\ ecall' = [n |-> n, max_retries |-> max_retries, configured |-> configured]
    /\ eattempt' = 0
    /\ elog' = <<>>
    /\ IF n = 0
       THEN epc' = "done" /\ eres' = NoEmbedResult
       ELSE IF TooMany(n)
       THEN epc' = "done" /\ eres' = EmbeddingError("batch size exceeds maximum")
       ELSE IF ~configured
       THEN epc' = "done" /\ eres' = EmbeddingError("settings incomplete")
       ELSE IF max_retries = 0
       THEN epc' = "done" /\ eres' = EmbeddingError(OrGenerationFailed(NULL))
       ELSE epc' = "post" /\ eres' = NoEmbedResult
    /\ EmbedFrame

\* The end of one iteration that neither returned nor raised: the next
\* attempt, or, after the last one, the raise that follows the loop.
\* `last_error` is kept in eres.error while the loop runs.
NextAttempt(last_error, log) ==
    /\ elog' = log
    /\ eattempt' = eattempt + 1
    /\ IF eattempt + 1 < ecall.max_retries
       THEN epc' = "post" /\ eres' = [eres EXCEPT !.error = last_error]
       ELSE epc' = "done" /\ eres' = EmbeddingError(OrGenerationFailed(last_error))

\* The exponential backoff at the end of an iteration: none after the last
\* attempt.
Backoff(log) ==
    IF eattempt < ecall.max_retries - 1
    THEN Append(log, Slept(eattempt, "backoff")) ELSE log

\* One iteration of the retry loop: the request, what the response leads
\* to, and the sleep before the next iteration.
EmbedAttempt(response) ==
    /\ epc = "post"
    /\ LET log == Append(elog, Posted(eattempt, response))
       IN  IF response.kind = "http" /\ response.status = 200
           THEN /\ elog' = log
                /\ epc' = "done"
                /\ eres' = IF response.full
                           THEN [raised |-> FALSE, type |-> NULL, error |-> NULL,
                                 embeddings |-> ecall.n]
                           ELSE EmbeddingError("wrong number of embeddings")
                /\ UNCHANGED eattempt
           ELSE IF response.kind = "http" /\ response.status = 429
           THEN IF response.retry_after = "date"
                THEN /\ elog' = log
                     /\ epc' = "done"
                     /\ eres' = ValueError
                     /\ UNCHANGED eattempt
                ELSE NextAttempt(eres.error,
                                 Append(log, Slept(eattempt,
                                     IF response.retry_after = "seconds"
                                     THEN "Retry-After" ELSE "backoff")))
           ELSE IF response.kind = "http" /\ ClientError(response.status)
           THEN /\ elog' = log
                /\ epc' = "done"
                /\ eres' = EmbeddingError("Embedding API error")
                /\ UNCHANGED eattempt
           ELSE IF response.kind = "http"
           THEN NextAttempt("Embedding API error", Backoff(log))
           ELSE IF response.kind = "timeout"
           THEN NextAttempt("Embedding API timeout", Backoff(log))
           ELSE NextAttempt("Network error", Backoff(log))
    /\ UNCHANGED ecall
    /\ EmbedFrame

InitEmbed ==
    /\ IdleFirst /\ IdleConc /\ IdleBatch /\ IdlePool /\ IdleInfer /\ IdleApi
    /\ ecall = NoEmbedCall
    /\ epc = "idle"
    /\ eattempt = 0
    /\ elog = <<>>
    /\ eres = NoEmbedResult

NextEmbed ==
    \/ \E n \in TextCounts, max_retries \in 0..MaxRetries, configured \in BOOLEAN :
          EmbedCall(n, max_retries, configured)
    \/ \E response \in Responses : EmbedAttempt(response)

SpecEmbed == InitEmbed /\ [][NextEmbed]_vars

-----------------------------------------------------------------------------
(* database/pool.py: init_pool under concurrent callers                    *)

\* The coroutines that call init_pool: RAGService.initialize,
\* PolicyIndexer._ensure_pool and DatabaseClient (client.py).  A pool object
\* is named after the coroutine whose create_pool call made it.
Coroutines == {"service", "indexer", "client"}

IdleCaller == [pc |-> "idle", got |-> NULL]

\* A coroutine runs up to its first suspension.  RAGService.initialize and
\* DatabaseClient go straight into init_pool; _ensure_pool first awaits
\* get_pool, which returns the pool or raises without suspending, and
\* goes into init_pool when it raised.  init_pool returns _pool when it is
\* set; otherwise it invokes asyncpg.create_pool and is suspended in the
\* await, _pool still None.
PoolEnter(c) ==
    /\ pcaller[c].pc = "idle"
    /\ IF pool # NULL
       THEN /\ pcaller' = [pcaller EXCEPT ![c] = [pc |-> "done", got |-> pool]]
            /\ UNCHANGED pcreated
       ELSE /\ pcaller' = [pcaller EXCEPT ![c].pc = "creating"]
            /\ pcreated' = pcreated + 1
    /\ UNCHANGED pool
    /\ PoolFrame

\* create_pool completes: the coroutine resumes, assigns its pool to _pool
\* and returns _pool.
PoolCreated(c) ==
    /\ pcaller[c].pc = "creating"
    /\ pool' = c
    /\ pcaller' = [pcaller EXCEPT ![c] = [pc |-> "done", got |-> c]]
    /\ UNCHANGED pcreated
    /\ PoolFrame

\* create_pool raises (the database cannot be reached): init_pool raises.
PoolCreateFails(c) ==
    /\ pcaller[c].pc = "creating"
    /\ pcaller' = [pcaller EXCEPT ![c].pc = "failed"]
    /\ UNCHANGED <<pool, pcreated>>
    /\ PoolFrame

InitPool ==
    /\ IdleFirst /\ IdleConc /\ IdleBatch /\ IdleEmbed /\ IdleInfer /\ IdleApi
    /\ pool = NULL
    /\ pcaller = [c \in Coroutines |-> IdleCaller]
    /\ pcreated = 0

NextPool ==
    \/ \E c \in Coroutines : PoolEnter(c)
    \/ \E c \in Coroutines : PoolCreated(c)
    \/ \E c \in Coroutines : PoolCreateFails(c)

SpecPool == InitPool /\ [][NextPool]_vars

-----------------------------------------------------------------------------
(* api_server.py: the update and delete endpoints of a policy and the      *)
(* background tasks they spawn                                             *)

\* The fields a PUT replaces: the first criterion's.
UpdatedFields == {"condition", "risk_level"}

\* A background task that has not been spawned.
IdleTask == [pc |-> "idle", ops |-> <<>>, at |-> 0]

\* The file the PolicyIndexer of the reindex task loads: the one the
\* endpoints write (prompts_root) when both paths name the same file, else
\* its own default path, which no endpoint writes.
IndexerFile == IF areq.same_file THEN afile ELSE InitialDocs

\* PUT /api/policies/{policy_id}: update_policy writes the file, then
\* asyncio.create_task(_background_reindex_policy(settings, policy_id)).
UpdatePolicyEndpoint(field) ==
    /\ areq.stage = "start"
    /\ afile[areq.policy_id].id # NULL
    /\ afile' = [afile EXCEPT ![areq.policy_id] = EditCriterion(@, 1, field)]
    /\ atasks' = [atasks EXCEPT !.reindex.pc = "spawned"]
    /\ areq' = [areq EXCEPT !.stage = "updated"]
    /\ UNCHANGED astore
    /\ ApiFrame

\* DELETE /api/policies/{policy_id}: delete_policy writes the file, then
\* asyncio.create_task(_background_delete_policy_chunks(settings, policy_id)).
DeletePolicyEndpoint ==
    /\ areq.stage = "updated"
    /\ afile[areq.policy_id].id # NULL
    /\ afile' = [afile EXCEPT ![areq.policy_id] = NoPolicy]
    /\ atasks' = [atasks EXCEPT !.delete.pc = "spawned"]
    /\ areq' = [areq EXCEPT !.stage = "deleted"]
    /\ UNCHANGED astore
    /\ ApiFrame

\* _background_reindex_policy up to its first store operation:
\* reindex_policy(policy_id) = index_policies([policy_id], True) loads the
\* file and filters; "skipped" when the policy is not in it.
BackgroundReindexBegin ==
    /\ atasks.reindex.pc = "spawned"
    /\ LET policies == LoadPolicies(IndexerFile,
                                    [given |-> TRUE, list |-> {areq.policy_id}])
       IN  atasks' = [atasks EXCEPT !.reindex =
                        [pc |-> IF policies = <<>> THEN "done" ELSE "running",
                         ops |-> RunOps(policies, TRUE), at |-> 1]]
    /\ UNCHANGED <<areq, afile, astore>>
    /\ ApiFrame

\* The next operation of the reindex task; each store call is awaited, so
\* the other task and the endpoints can run in between.
BackgroundReindexStep ==
    /\ atasks.reindex.pc = "running"
    /\ LET task == atasks.reindex
       IN  /\ astore' = ApplyOp(astore, task.ops[task.at])
           /\ atasks' = [atasks EXCEPT !.reindex.at = task.at + 1,
                                       !.reindex.pc = IF task.at = Len(task.ops)
                                                      THEN "done" ELSE "running"]
    /\ UNCHANGED <<areq, afile>>
    /\ ApiFrame

\* _background_delete_policy_chunks: delete_chunks_by_policy(policy_id).
BackgroundDeletePolicyChunks ==
    /\ atasks.delete.pc = "spawned"
    /\ astore' = DeleteByPolicy(astore, areq.policy_id)
    /\ atasks' = [atasks EXCEPT !.delete.pc = "done"]
    /\ UNCHANGED <<areq, afile>>
    /\ ApiFrame

InitApi ==
    /\ IdleFirst /\ IdleConc /\ IdleBatch /\ IdleEmbed /\ IdlePool /\ IdleInfer
    /\ areq \in [policy_id : PolicyIds, same_file : BOOLEAN, stage : {"start"}]
    /\ afile = InitialDocs
    /\ atasks = [reindex |-> IdleTask, delete |-> IdleTask]
    /\ astore \in StartTables

NextApi ==
    \/ \E field \in UpdatedFields : UpdatePolicyEndpoint(field)
    \/ DeletePolicyEndpoint
    \/ BackgroundReindexBegin
    \/ BackgroundReindexStep
    \/ BackgroundDeletePolicyChunks

SpecApi == InitApi /\ [][NextApi]_vars

-----------------------------------------------------------------------------
(* Properties of the indexing pipeline                                     *)

\* The identity key of a stored row.
KeyOf(row) ==
    <<row.policy_id, row.chunk_type,
      IF row.criteria_id = NULL THEN "" ELSE row.criteria_id, row.content_hash>>
Keys(tbl) == {KeyOf(r) : r \in BagToSet(tbl)}
RowCount(tbl) == BagCardinality(tbl)

\* The last index_policies call re-indexed what the call before it indexed:
\* same argument, same policies with the same content, nothing else written
\* in between.
Reindexed ==
    /\ last.valid
    /\ last.prior.valid
    /\ last.prior.ids = last.ids
    /\ last.prior.policies = last.policies

\* C1 as stated: after index_policies has run a second time over an
\* unchanged document set, with or without force_reindex, the table has the
\* same number of rows and the same set of identity keys as after the first
\* run.
C1SameRowsAndKeys ==
    Reindexed => /\ RowCount(store) = RowCount(last.before)
                 /\ Keys(store) = Keys(last.before)

\* C1, amended: a second index_policies run over an unchanged document set
\* adds no row and no identity key (zero net new rows); the number of rows
\* and the set of keys are the same as after the first run when the second
\* run is not forced or the first one was forced.  A forced run after an
\* unforced one removes the rows that older contents of the policies left.
C1NoNetNewRows ==
    Reindexed =>
        /\ RowCount(store) <= RowCount(last.before)
        /\ Keys(store) \subseteq Keys(last.before)
        /\ (~last.force \/ last.prior.force) =>
              /\ RowCount(store) = RowCount(last.before)
              /\ Keys(store) = Keys(last.before)

\* A forced second run over unchanged documents removed rows that an
\* unforced first run had left in place.
C1Witness ==
    /\ Reindexed
    /\ last.force
    /\ ~last.prior.force
    /\ RowCount(store) < RowCount(last.before)
    /\ RowCount(store) > 0

\* C2: in every reachable state of the table, under any sequence of
\* insert_chunks (on_conflict update or skip), delete_chunks_by_policy and
\* index_policies calls, no two rows share the identity key (policy_id,
\* chunk_type, criteria_id-or-empty, content_hash): an upsert on an existing
\* key never adds a second row.
C2UniqueIdentityKey ==
    /\ \A r \in BagToSet(store) : store[r] = 1
    /\ \A r1, r2 \in BagToSet(store) : KeyOf(r1) = KeyOf(r2) => r1 = r2

\* An upsert has hit the key of a stored row without criteria_id and of one
\* with criteria_id, and the table holds several rows.
C2Witness ==
    /\ \E r \in BagToSet(store) : r.updated /\ r.criteria_id = NULL
    /\ \E r \in BagToSet(store) : r.updated /\ r.criteria_id # NULL
    /\ RowCount(store) > 1

\* The criteria rows of the table for one policy and criteria_id.
CriteriaRows(tbl, policy_id, criteria_id) ==
    {r \in BagToSet(tbl) : /\ r.policy_id = policy_id
                           /\ r.chunk_type = "criteria"
                           /\ r.criteria_id = criteria_id}

\* The criteria chunks of the policies of the last call whose criterion was
\* indexed before the call with another content_hash: the edited criteria.
EditedChunks ==
    {c \in SeqToSet(ChunkAll(last.policies)) :
        /\ c.chunk_type = "criteria"
        /\ \E r \in CriteriaRows(last.before, c.policy_id, c.criteria_id) :
              r.content_hash # c.content_hash}

\* C3: after a criterion of an indexed policy is edited and the policy is
\* re-indexed with force, the table holds exactly one row for that
\* criteria_id, it carries the new content_hash, and no row with an old
\* content_hash remains.
C3ForcedReindexReplaces ==
    (last.valid /\ last.force) =>
        \A c \in EditedChunks :
            LET rows == CriteriaRows(store, c.policy_id, c.criteria_id)
            IN  /\ Cardinality(rows) = 1
                /\ \A r \in rows : store[r] = 1 /\ r.content_hash = c.content_hash
                /\ \A old \in CriteriaRows(last.before, c.policy_id, c.criteria_id) :
                      old.content_hash # c.content_hash =>
                          \A r \in BagToSet(store) : KeyOf(r) # KeyOf(old)

\* A forced reindex has run over a policy one of whose criteria was stored
\* with its old content_hash.
C3Witness ==
    /\ last.valid
    /\ last.force
    /\ EditedChunks # {}
    /\ \E c \in EditedChunks : CriteriaRows(store, c.policy_id, c.criteria_id) # {}

-----------------------------------------------------------------------------
(* Properties of the chunker                                               *)

\* The chunk of criterion i in the list chunk_policy returns.
ChunkOfCriterion(i) == i + 1

\* The non-empty risk levels of the criteria of a policy.
RiskLevelsOf(criteria) ==
    {criteria[i].risk_level : i \in 1..Len(criteria)} \ {"", NULL}

\* The policy as it was before the edit: Edited is its own inverse.
PolicyBeforeEdit == EditCriterion(cpolicy, cedit.index, cedit.field)

SameHash(k) == cafter[k].content_hash = cbefore[k].content_hash

SequenceContract(policy, chunks) ==
    LET n == Len(policy.criteria)
        f == IF policy.modifying_factors # <<>> THEN 1 ELSE 0
        r == IF policy.references # <<>> THEN 1 ELSE 0
    IN  /\ Len(chunks) = 1 + n + f + r
        /\ \A k \in 1..Len(chunks) : chunks[k].chunk_sequence = k - 1
        /\ chunks[1].chunk_type = "policy_header"
        /\ \A i \in 1..n :
              /\ chunks[i + 1].chunk_type = "criteria"
              /\ chunks[i + 1].content_hash
                    = <<"sha256", [EmptyContent EXCEPT
                                     !.kind = "criteria", !.name = policy.name,
                                     !.condition = policy.criteria[i].condition,
                                     !.risk_level = policy.criteria[i].risk_level,
                                     !.action = policy.criteria[i].action,
                                     !.rationale = policy.criteria[i].rationale]>>
        /\ f = 1 => chunks[n + 2].chunk_type = "modifying_factor"
        /\ r = 1 => chunks[Len(chunks)].chunk_type = "reference"
        /\ \A k \in (n + 2)..Len(chunks) :
              chunks[k].chunk_type \in {"modifying_factor", "reference"}

C10SequenceContiguous ==
    /\ cphase = "chunked" => SequenceContract(cpolicy, cbefore)
    /\ cphase = "rechunked" => SequenceContract(cpolicy, cafter)

\* A policy with two or more criteria, modifying factors and references has
\* been chunked.
C10Witness ==
    /\ cphase = "chunked"
    /\ Len(cpolicy.criteria) >= 2
    /\ cpolicy.modifying_factors # <<>>
    /\ cpolicy.references # <<>>
    /\ Len(cbefore) = Len(cpolicy.criteria) + 3

-----------------------------------------------------------------------------
(* Properties of the RAG service                                           *)

\* The last call ran into a stage that raised.
StageFailed ==
    \E k \in 1..Len(StagesOf(qcall.svc, qcall.world)) :
        Raises(StagesOf(qcall.svc, qcall.world)[k], qcall.world)

\* The first stage of the last call that raised.
FailedStage ==
    LET stages == StagesOf(qcall.svc, qcall.world)
        k == CHOOSE j \in 1..Len(stages) :
                /\ Raises(stages[j], qcall.world)
                /\ \A h \in 1..(j - 1) : ~Raises(stages[h], qcall.world)
    IN  stages[k]

C6QueryNeverRaises ==
    qcall.op = "query" =>
        /\ ~qres.raised
        /\ StageFailed =>
              /\ qres.context = ""
              /\ qres.used_fallback
              /\ qres.chunks_retrieved = 0
              /\ qres.fallback_reason = qcall.world.msg \o " in " \o FailedStage

\* query was called and its initialisation failed.
C6Witness ==
    /\ qcall.op = "query"
    /\ StageFailed
    /\ FailedStage = "initialize"
    /\ qres.used_fallback

-----------------------------------------------------------------------------
(* Properties of the context assembler                                     *)

\* C7 as stated: total_tokens of the RAGContext that assemble_context
\* returns does not exceed max_tokens by more than a fixed constant that does
\* not depend on the results; the constant is the header/footer overhead the
\* module itself reckons with, the only one it has.
C7WithinBudget ==
    ares # NoContext => ares.total_tokens <= aarg.max_tokens + HeaderFooterOverhead

-----------------------------------------------------------------------------
(* Properties of the search service                                        *)

\* C8: in the list a search operation returns (semantic_search,
\* filtered_search, hybrid_search, search_by_policy with a query,
\* intelligent_search on each of its paths), a result with a strictly higher
\* similarity than another one comes before it.
C8RankingMonotone ==
    \A i, j \in 1..Len(sres.results) :
        sres.results[i].similarity > sres.results[j].similarity => i < j

\* intelligent_search supplemented a filtered result with unfiltered ones of
\* higher similarity.
C8Witness ==
    /\ sres.op = "intelligent_search"
    /\ sres.path = "merged"
    /\ Len(sres.results) = 2
    /\ sres.results[1].chunk_id = 3
    /\ sres.results[1].similarity > sres.results[2].similarity

\* C9 as stated: hybrid_search with a query equal to P1's policy_id up to
\* case returns a list that holds P1's policy_header chunk, for every
\* top_k >= 1, whatever the similarities of the stored chunks and whether or
\* not pg_trgm is available.
C9ExactMatchSurfaces ==
    (sres.op = "hybrid_search" /\ Upper(sarg.query) = "P1") =>
        \E i \in 1..Len(sres.results) : sres.results[i].chunk_id = 1

-----------------------------------------------------------------------------
(* Properties of two concurrent index_policies runs                        *)

BothDone == \A r \in Runners : wrun[r].pc = "done"
TargetedChunks == SeqToSet(ChunkAll(LoadPolicies(InitialDocs, wcfg.ids)))
EitherForced == \E r \in Runners : wrun[r].force

\* C11: once two index_policies runs over the same unchanged file and the
\* same targeted policies have both completed, however their deletes and
\* upserts interleaved, every chunk of every targeted policy is stored
\* exactly once, no row is duplicated, and the table holds the rows a single
\* run from the same starting table leaves (forced if either run was).
C11ConcurrentRunsConverge ==
    BothDone =>
        /\ \A c \in TargetedChunks :
              Copies(wstore, {r \in BagToSet(wstore) : KeyOf(r) = KeyOf(c)}) = 1
        /\ RowCount(wstore) = Cardinality(Keys(wstore))
        /\ Keys(wstore) =
              Keys(Indexed(wcfg.start, LoadPolicies(InitialDocs, wcfg.ids),
                           EitherForced))

\* Both runs completed after one of them deleted rows the other had stored.
C11Witness == BothDone /\ wraced /\ wcfg.start # EmptyBag

-----------------------------------------------------------------------------
(* Properties of insert_chunks                                             *)

\* Chunk i of the last batch is one the store should hold: it has its
\* embedding and its statement did not raise.
Sound(i) == bcall.chunks[i].embedding # NULL /\ i # bcall.fail
StoredChunk(i) == KeyOf(bcall.chunks[i]) \in Keys(bstore)

\* C12: after insert_chunks, whether a chunk of the batch lacked its
\* embedding or the statement of a chunk raised, every other chunk of the
\* batch, those after the failing one included, is in the store.
C12FailureAbortsOnlyThatChunk ==
    \A i \in 1..Len(bcall.chunks) : Sound(i) => StoredChunk(i)

-----------------------------------------------------------------------------
(* Properties of reindex_all                                               *)

\* The last index call was reindex_all() and nothing has written to the
\* table since.
AfterReindexAll == last.valid /\ last.force /\ ~last.ids.given

\* The rows that indexing the source it loaded into an empty table gives.
FromSource == Indexed(EmptyBag, last.policies, FALSE)

\* C13: after reindex_all() the table holds exactly the chunks produced
\* from the source as it was loaded, whatever rows were there before,
\* rows of policies that are no longer in the source included.
C13ReindexAllClears == AfterReindexAll => Keys(store) = Keys(FromSource)

-----------------------------------------------------------------------------
(* Properties of category inference                                        *)

KeywordResult == InferFromKeywords(iarg.query)
ModelFails == ~iarg.world.configured \/ iarg.world.outcome # "answer"

\* C14: infer_async calls the model strategy exactly when use_llm is true
\* and the keyword confidence is strictly below llm_threshold; whenever the
\* model strategy fails (not configured, network error, unparsable answer)
\* what it returns is the keyword result; and it never raises.
C14KeywordFirstNeverRaises ==
    ires.op = "infer_async" =>
        /\ ires.out.llm_invoked <=>
              (ires.use_llm /\ KeywordResult.confidence < ires.llm_threshold)
        /\ ~ires.out.llm_invoked => ires.out.value = KeywordResult
        /\ ModelFails => ires.out.value = KeywordResult
        /\ ~ires.out.raised

\* The model was asked, the request failed, the keyword result came back.
C14Witness ==
    /\ ires.op = "infer_async"
    /\ ires.out.llm_invoked
    /\ ires.out.requests = 1
    /\ iarg.world.outcome = "network_error"
    /\ ires.out.value = KeywordResult
    /\ KeywordResult.categories # <<>>

\* The matched category is one with the most pattern hits.
MostHits(c) ==
    \A d \in SeqToSet(KeywordResult.categories) :
        iarg.query.hits[c] >= iarg.query.hits[d]

\* C20: when intelligent_search applies a filter and the query matched
\* several categories, the category handed to filtered_search is the matched
\* category with the largest number of pattern hits.
C20FilterIsTopCategory ==
    (/\ ires.op = "intelligent_search"
     /\ ires.filter.applied
     /\ ires.out.value.method = "keyword"
     /\ Len(ires.out.value.categories) > 1)
        => MostHits(ires.filter.category)

-----------------------------------------------------------------------------
(* Properties of query_with_fallback                                       *)

\* What the query() inside the last call returned.
InnerResult == Query(qcall.svc, qcall.world)
InnerFellBack == InnerResult.used_fallback \/ InnerResult.chunks_retrieved = 0

\* The last call returned the caller's fallback context, marked as such.
ReturnedFallback ==
    /\ qres.context = qcall.fallback_context
    /\ qres.used_fallback
    /\ qres.fallback_reason \notin {NULL, ""}

\* C15: query_with_fallback returns the caller's fallback_context, with
\* used_fallback true and a non-empty fallback_reason, if and only if the
\* inner query used its internal fallback or retrieved zero chunks;
\* otherwise it returns the inner result unchanged, used_fallback false.
C15FallbackIffInnerFailed ==
    qcall.op = "query_with_fallback" =>
        /\ ReturnedFallback <=> InnerFellBack
        /\ ~InnerFellBack => (qres = InnerResult /\ ~qres.used_fallback)

\* The inner query ran through and found nothing: the fallback context comes
\* back with the reason "no chunks retrieved".
C15Witness ==
    /\ qcall.op = "query_with_fallback"
    /\ ~InnerResult.used_fallback
    /\ InnerResult.chunks_retrieved = 0
    /\ ReturnedFallback
    /\ qres.fallback_reason = "no chunks retrieved"

-----------------------------------------------------------------------------
(* Properties of get_embeddings_batch                                      *)

\* Entry i of the log is a request answered with a 4xx status other than 429.
ClientErrorAt(i) ==
    /\ elog[i].ev = "post"
    /\ elog[i].response.kind = "http"
    /\ elog[i].response.status \in 400..499
    /\ elog[i].response.status # 429

Requests == {i \in 1..Len(elog) : elog[i].ev = "post"}

\* C16: a response with a 4xx status other than 429 makes
\* get_embeddings_batch raise EmbeddingError at once, on whichever attempt:
\* it is the last entry of the log (no request and no sleep follows it) and
\* the call is over.
C16ClientErrorRaisesAtOnce ==
    \A i \in 1..Len(elog) :
        ClientErrorAt(i) =>
            /\ i = Len(elog)
            /\ epc = "done"
            /\ eres.raised
            /\ eres.error = "Embedding API error"

\* A 404 on the second attempt, after a server error and its backoff.
C16Witness ==
    /\ Len(elog) = 3
    /\ elog[1].ev = "post" /\ elog[1].response.status = 500
    /\ elog[2].ev = "sleep"
    /\ ClientErrorAt(3)
    /\ elog[3].attempt = 1
    /\ eres.raised

\* C17: get_embeddings_batch with more than 100 texts raises EmbeddingError
\* without a single request, whatever the settings and max_retries.
C17BatchLimitBeforeNetwork ==
    ecall.n > MAX_BATCH_SIZE =>
        /\ epc = "done"
        /\ eres.raised
        /\ eres.error = "batch size exceeds maximum"
        /\ Requests = {}

\* 101 texts on a service whose settings are incomplete: the batch limit is
\* what is raised.
C17Witness ==
    /\ ecall.n = MAX_BATCH_SIZE + 1
    /\ ~ecall.configured
    /\ epc = "done"
    /\ eres.error = "batch size exceeds maximum"

-----------------------------------------------------------------------------
(* Properties of init_pool                                                 *)

\* The pools that init_pool has returned to its callers.
PoolsGiven == {pcaller[c].got : c \in {d \in Coroutines : pcaller[d].pc = "done"}}

\* C18: under any interleaving of concurrent callers of init_pool, the pool
\* is created at most once: create_pool is invoked once and every caller
\* receives the same pool object.
C18PoolCreatedOnce ==
    /\ pcreated <= 1
    /\ Cardinality(PoolsGiven) <= 1

-----------------------------------------------------------------------------
(* Properties of the hybrid score                                          *)

\* The score with each weight on the similarity its name says.
NamedScore(c) ==
    Max(Max(SemanticScore(sarg, c),
            VectorWeight * sarg.sem[c] + TextWeight * sarg.lex[c]),
        IF ExactMatch(sarg, c) THEN ExactMatchBoost ELSE 0)

\* C19: the score hybrid_search assigns to a row is the maximum of its
\* semantic similarity, vector_weight * semantic + text_weight * lexical
\* similarity, and 0.95 if its policy_id equals the query up to case, with
\* vector_weight and text_weight the values passed under those names.
C19HybridScoreAsNamed ==
    (sres.op = "hybrid_search" /\ sarg.trgm) =>
        \A i \in 1..Len(sres.results) :
            sres.results[i].similarity = NamedScore(sres.results[i].chunk_id)

-----------------------------------------------------------------------------
(* Properties of the supplement of intelligent_search                      *)

\* C21: in intelligent_search with a filter applied, for every top_k >= 1,
\* a filtered result of fewer than top_k / 2 entries is supplemented with
\* the unfiltered results: a list returned as filtered_search gave it has at
\* least top_k / 2 entries, and an empty one is never returned that way.
C21FewResultsSupplemented ==
    (sres.op = "intelligent_search" /\ sres.path = "filtered") =>
        /\ 2 * Len(sres.results) >= sarg.top_k
        /\ sres.results # <<>>

-----------------------------------------------------------------------------
(* Properties of the retry loop                                            *)

\* The call returned the embeddings of a 200 response.
ReturnedEmbeddings ==
    /\ ~eres.raised
    /\ (ecall.n > 0 =>
          /\ elog # <<>>
          /\ elog[Len(elog)].ev = "post"
          /\ elog[Len(elog)].response.status = 200)
    /\ eres.embeddings = ecall.n

\* C22: a call of get_embeddings_batch sends at most max_retries requests,
\* whatever the provider answers (timeouts, network errors, 5xx, 429 with
\* or without Retry-After), and when it is over it has returned the
\* embeddings of a 200 response or raised EmbeddingError.
C22BoundedRetries ==
    /\ Cardinality(Requests) <= ecall.max_retries
    /\ epc = "done" =>
          \/ ReturnedEmbeddings
          \/ eres.raised /\ eres.type = "EmbeddingError"

-----------------------------------------------------------------------------
(* Properties of the loop of assemble_context                              *)

\* tokens_used when result k is reached with every earlier result included
\* in full: the header and, for each earlier result, its text and overhead.
RECURSIVE UsedBefore(_)
UsedBefore(k) ==
    IF k = 1 THEN aarg.header
    ELSE UsedBefore(k - 1) + aarg.results[k - 1].tokens + DEFAULT_CHUNK_OVERHEAD

\* Result k, with its overhead, does not fit any more.
Overflows(k) ==
    UsedBefore(k) + aarg.results[k].tokens + DEFAULT_CHUNK_OVERHEAD > aarg.max_tokens

\* The first result that does not fit, or one past the last if all do.
FirstOverflow ==
    CHOOSE k \in 1..(Len(aarg.results) + 1) :
        /\ k <= Len(aarg.results) => Overflows(k)
        /\ \A j \in 1..(k - 1) : ~Overflows(j)

RemainingAt(k) == aarg.max_tokens - UsedBefore(k) - DEFAULT_CHUNK_OVERHEAD

\* C23: once a result with its overhead would exceed max_tokens no later
\* result is included; the overflowing result is included, truncated, iff
\* the remaining budget exceeds 100 tokens; so at most one chunk is
\* truncated and a truncated chunk is the last one included.
C23StopsAtOverflow ==
    ares # NoContext =>
        LET k == FirstOverflow
            partial == k <= Len(aarg.results) /\ RemainingAt(k) > WorthIncluding
            n == IF partial THEN k ELSE k - 1
        IN  /\ Len(ares.parts) = n
            /\ \A i \in 1..n :
                  /\ ares.parts[i].result = i
                  /\ ares.parts[i].truncated = (partial /\ i = k)
            /\ ares.chunks_included = n
            /\ ares.chunks_truncated = (IF partial THEN 1 ELSE 0)
            /\ ares.chunks_truncated <= 1

\* An overflowing result was included in truncated form after a full one.
C23Witness ==
    /\ ares # NoContext
    /\ ares.chunks_truncated = 1
    /\ ares.chunks_included >= 2
    /\ FirstOverflow < Len(aarg.results)

\* An overflowing result was left out, and so was the one after it.
C23WitnessDropped ==
    /\ ares # NoContext
    /\ ares.chunks_truncated = 0
    /\ FirstOverflow < Len(aarg.results)
    /\ ares.chunks_included = FirstOverflow - 1

\* C24: the RAGContext has exactly one citation per included result, the
\* truncated one included, and the i-th citation carries the policy_id,
\* chunk_type, criteria_id and similarity of the i-th input result.
C24CitationPerIncludedResult ==
    ares # NoContext =>
        /\ Len(ares.citations) = ares.chunks_included
        /\ Len(ares.citations) <= Len(aarg.results)
        /\ \A i \in DOMAIN ares.citations :
              /\ ares.citations[i].policy_id = aarg.results[i].policy_id
              /\ ares.citations[i].chunk_type = aarg.results[i].chunk_type
              /\ ares.citations[i].criteria_id = aarg.results[i].criteria_id
              /\ ares.citations[i].similarity = aarg.results[i].similarity

\* Two citations of criteria chunks, the second for a truncated chunk, with
\* a third result left out.
C24Witness ==
    /\ ares # NoContext
    /\ Len(ares.citations) = 2
    /\ Len(aarg.results) = 3
    /\ ares.chunks_truncated = 1
    /\ ares.citations[1].criteria_id # NULL
    /\ ares.citations[2].criteria_id # NULL

-----------------------------------------------------------------------------
(* Properties of infer_from_keywords and of the filter built from it       *)

\* The last call ended with the result of infer_from_keywords.
ByKeywords ==
    /\ ires.op # NULL
    /\ ~ires.out.raised
    /\ ires.out.value.method = "keyword"

\* Category pattern hits of the query, over all categories.
TotalHits == SumHits(iarg.query.hits, Categories)

\* C25: infer_from_keywords names a category iff one of its patterns hits
\* the query, and its confidence is min(1.0, 0.2 * total category pattern
\* hits), 0.0 without a hit; subcategory and risk-level hits add nothing.
C25ConfidenceFromCategoryHits ==
    ByKeywords =>
        /\ SeqToSet(ires.out.value.categories)
              = {c \in SeqToSet(Categories) : iarg.query.hits[c] > 0}
        /\ ires.out.value.confidence
              = Min(FullConfidence, TotalHits * ConfidencePerMatch)

\* A keyword result with a subcategory and a risk level matched, below full
\* confidence.
C25Witness ==
    /\ ByKeywords
    /\ ires.out.value.subcategories # <<>>
    /\ ires.out.value.risk_levels # <<>>
    /\ TotalHits = 2

\* C30: whenever intelligent_search hands both a category and a subcategory
\* to filtered_search, the subcategory is one the subcategory table defines
\* under that category.
C30SubcategoryOfCategory ==
    (/\ ires.op = "intelligent_search"
     /\ ires.filter.applied
     /\ ires.filter.category # NULL
     /\ ires.filter.subcategory # NULL)
        => ires.filter.subcategory
             \in SeqToSet(SubcategoryTable[ires.filter.category])

-----------------------------------------------------------------------------
(* Properties of the order of the stages of query()                        *)

\* Where in the last call a stage was entered.
RanAt(stage) == {i \in DOMAIN qcall.ran : qcall.ran[i] = stage}

\* The stage was entered and returned.
Returned(stage) == RanAt(stage) # {} /\ ~Raises(stage, qcall.world)

\* The last call was a query() with hybrid search enabled.
HybridQuery == qcall.op = "query" /\ qcall.svc.use_hybrid

\* C26: with hybrid search enabled, query() calls hybrid_search first and
\* intelligent_search iff hybrid_search returned an empty list (an
\* intelligent_search that is called infers and embeds before it searches
\* the store); assemble_context runs after the search used has returned,
\* on exactly its results.
C26HybridFirstThenIntelligent ==
    HybridQuery =>
        /\ \A i \in RanAt("intelligent_search") :
              /\ \E h \in RanAt("hybrid_search") : h < i
              /\ qcall.world.hybrid = 0
        /\ (Returned("hybrid_search") /\ qcall.world.hybrid > 0)
              => RanAt("intelligent_search") = {}
        /\ (Returned("hybrid_search") /\ qcall.world.hybrid = 0)
              => \/ RanAt("intelligent_search") # {}
                 \/ /\ ~Returned(qcall.ran[Len(qcall.ran)])
                    /\ qcall.ran[Len(qcall.ran)] \in {"infer", "embed"}
        /\ \A a \in RanAt("assemble") :
              /\ a = Len(qcall.ran)
              /\ Returned("hybrid_search")
              /\ \A h \in RanAt("hybrid_search") : h < a
              /\ qcall.world.hybrid = 0 =>
                    /\ Returned("intelligent_search")
                    /\ \A i \in RanAt("intelligent_search") : i < a
              /\ Returned("assemble") =>
                    /\ ~qres.used_fallback
                    /\ qres.chunks_retrieved
                          = (IF qcall.world.hybrid > 0 THEN qcall.world.hybrid
                             ELSE qcall.world.intelligent)
                    /\ qres.context = ContextText(qres.chunks_retrieved)

\* hybrid_search returned nothing, intelligent_search found chunks, and they
\* were assembled.
C26Witness ==
    /\ HybridQuery
    /\ qcall.world.hybrid = 0
    /\ RanAt("intelligent_search") # {}
    /\ Returned("assemble")
    /\ qres.chunks_retrieved = MaxResults

\* hybrid_search found chunks and they were assembled without an
\* intelligent_search.
C26WitnessHybridOnly ==
    /\ HybridQuery
    /\ qcall.world.hybrid = 1
    /\ qcall.world.intelligent = 2
    /\ Returned("assemble")
    /\ qres.chunks_retrieved = 1

-----------------------------------------------------------------------------
(* Properties of a forced index_policies run that fails                    *)

\* Run r is a forced run and the only one started.
Solo(r) ==
    /\ wrun[r].pc # "idle"
    /\ wrun[r].force
    /\ \A q \in Runners \ {r} : wrun[q].pc = "idle"

\* The operation run r has come to (and, if raised, failed in).
AtOp(r, op) ==
    /\ wrun[r].at <= Len(wrun[r].ops)
    /\ wrun[r].ops[wrun[r].at].op = op

\* The run has left its deletes behind.
PastDeletes(r) == wrun[r].pc \in {"running", "raised", "done"} /\ ~AtOp(r, "delete")

TargetedIds ==
    LET policies == LoadPolicies(InitialDocs, wcfg.ids)
    IN  {policies[i].id : i \in DOMAIN policies}

\* The rows of the targeted policies, by key: those in a table and those
\* run r has upserted so far.
TargetedKeys(tbl) == {KeyOf(x) : x \in {y \in BagToSet(tbl) : y.policy_id \in TargetedIds}}
UpsertedKeys(r) ==
    {KeyOf(wrun[r].ops[j].chunk) :
        j \in {i \in 1..(wrun[r].at - 1) : wrun[r].ops[i].op = "upsert"}}

\* C27: in a forced index_policies run every delete comes before the
\* embedding request and before every upsert, so from the embedding request
\* on the store holds, of the targeted policies, only what this run has
\* upserted; a run that raises in the embedding or storing stage ends with
\* the exception and leaves the store so: the rows it had deleted are not
\* put back.
C27DeletesFirstNoRestore ==
    \A r \in Runners :
        Solo(r) =>
            /\ \A i, j \in DOMAIN wrun[r].ops :
                  (wrun[r].ops[i].op = "delete" /\ wrun[r].ops[j].op # "delete")
                      => i < j
            /\ PastDeletes(r) => TargetedKeys(wstore) = UpsertedKeys(r)
            /\ (wrun[r].pc = "raised" /\ AtOp(r, "embed"))
                  => TargetedKeys(wstore) = {}

\* A forced run over an indexed table raised in the embedding stage.
C27Witness ==
    /\ Solo("r1")
    /\ wrun["r1"].pc = "raised"
    /\ AtOp("r1", "embed")
    /\ TargetedKeys(wcfg.start) # {}
    /\ TargetedKeys(wstore) = {}

\* A forced run over a table indexed from the older file raised in the
\* storing stage after its first upsert.
C27WitnessStoring ==
    /\ Solo("r1")
    /\ wrun["r1"].pc = "raised"
    /\ AtOp("r1", "upsert")
    /\ UpsertedKeys("r1") # {}
    /\ TargetedKeys(wcfg.start) \ TargetedKeys(wstore) # {}

-----------------------------------------------------------------------------
(* Properties of the background tasks of the policy endpoints              *)

\* The policy was updated and deleted and both background tasks are over.
BothTasksFinished ==
    /\ areq.stage = "deleted"
    /\ atasks.reindex.pc = "done"
    /\ atasks.delete.pc = "done"

\* C28: when a policy has been updated and then deleted through the API,
\* then however the background reindex task and the background delete task
\* interleave, once both have finished the chunk store holds no chunk of the
\* deleted policy.
C28DeletedPolicyLeavesNoChunks ==
    BothTasksFinished =>
        \A r \in BagToSet(astore) : r.policy_id # areq.policy_id

-----------------------------------------------------------------------------
(* Properties of the policy_ids filter of index_policies                   *)

\* The rows of one policy in a table, with their multiplicities.
RowsOfPolicy(tbl, p) == [r \in {x \in BagToSet(tbl) : x.policy_id = p} |-> tbl[r]]

\* C29: an index_policies call given a list L as policy_ids (the empty list
\* included), forced or not, deletes and upserts only rows whose policy_id is
\* in L: the rows of every policy not in L are as they were before the call.
C29OnlyListedPoliciesTouched ==
    (last.valid /\ last.ids.given) =>
        \A p \in PolicyIds \ last.ids.list :
            RowsOfPolicy(store, p) = RowsOfPolicy(last.before, p)

====
